---- MODULE Spec2Model ----
(***************************************************************************)
(* Gateway dial-home broker: the in-memory registry of gateway connections *)
(* (GatewayManager), the per-connection dispatcher (gateway_connect) and   *)
(* the API-facing callers of request_with_response and send_task.          *)
(*                                                                         *)
(* The program runs on one asyncio event loop: the code between two        *)
(* awaits that can suspend is one atomic step.  Each action below is one   *)
(* such step of one coroutine.                                             *)
(***************************************************************************)
EXTENDS Integers, Sequences, FiniteSets, TLC

(* ---- bounds ---- *)
\* Number of correlated requests that reach a Record in one behaviour.
MaxRids == 2
\* Number of heartbeat or ping frames processed for a Record in one behaviour.
MaxBeats == 2

(* ---- universe ---- *)
Machines == {"m1", "m2", "m3"}
Orgs == {"o1", "o2"}
\* The connections made with tokens of machine m1, in the order they are made.
Conns == {1, 2, 3}
\* One connection of machine m2 and one of machine m3.
PeerConns == {4, 5}
AllConns == Conns \cup PeerConns
Rids == 1..MaxRids
Requesters == {1, 2}
Senders == {1}
Replies == {"ok", "err"}
Sids == {"s1"}
\* The terminal clients, and the session id each one's handler makes from
\* its own transport (line 253 of agents.py).
Terms == {1, 2}
TermSids == {"s1", "s2"}
SidOf(t) == IF t = 1 THEN "s1" ELSE "s2"
\* data.get("session_id") of a terminal_output frame that is missing or
\* empty, one that is a JSON array (truthy and unhashable), and one that no
\* client was ever given.
NoSid == ""
BadSid == "[1]"
UnknownSid == "s9"
Contents == {"a", "b"}
NoConn == 0
NoRid == 0
\* Close codes: none yet, close() without a code, and the code of a rejected
\* handshake.
NoCode == 0
NormalClosure == 1000
AuthFailedCode == 4001
\* A request_id that is a JSON array or object: a truthy, unhashable value.
BadRid == -1

\* The machine the verifier returns for the token of connection c.
MachineOf(c) == IF c = 4 THEN "m2" ELSE IF c = 5 THEN "m3" ELSE "m1"

\* The organization the verifier returns with the machine: m1 and m2 belong
\* to one organization, m3 to another.
OrgOf(m) == IF m = "m3" THEN "o2" ELSE "o1"

\* data.get("agents_managed") of a heartbeat: absent or null, a count, or a
\* JSON value that is not a number.
NoAgents == -1
BadAgents == -2
AgentCounts == {0, 3}

HTask(c) == <<"h", c>>
STask(s) == <<"s", s>>
BTask == <<"b", 0>>
TTask(t) == <<"t", t>>
NoTask == <<"none", 0>>

FutNone == [st |-> "none", val |-> "-"]
FutPending == [st |-> "pending", val |-> "-"]
FutCancelled == [st |-> "cancelled", val |-> "-"]
FutResult(v) == [st |-> "result", val |-> v]
FutDone(f) == f.st \in {"result", "cancelled"}

NoOutcome == [kind |-> "none", val |-> "-"]
Outcome(k, v) == [kind |-> k, val |-> v]

(* ---- schemas/boards.py ---- *)

\* A keyword argument that is not given, and the values None and {}.
Absent == "absent"
None == "None"
EmptyDict == "{}"

\* The goal fields a caller can give to BoardCreate: board_type a string,
\* goal_confirmed a bool, objective a string or None, success_metrics a
\* dict or None; each may be left out.
BoardInputs ==
    [board_type : {Absent, "goal", "general", "Goal"},
     goal_confirmed : {Absent, "True", "False"},
     objective : {Absent, None, "", " ", "Launch onboarding"},
     success_metrics : {Absent, None, EmptyDict, "{emails: 3}"}]

NoBoard == [board_type |-> Absent, goal_confirmed |-> Absent,
            objective |-> Absent, success_metrics |-> Absent]

\* BoardBase, lines 14-18: the declared default of each field.
BoardDefaults == [board_type |-> "goal", goal_confirmed |-> "False",
                  objective |-> None, success_metrics |-> None]

\* The model instance built from the arguments: a field that is not given
\* takes its default.
BoardBase(kw) ==
    [f \in DOMAIN kw |-> IF kw[f] = Absent THEN BoardDefaults[f] ELSE kw[f]]

\* Python truth value of a str, dict or None.
Truthy(v) == v \notin {None, "", EmptyDict}

\* validate_goal_fields that asks for the goal fields before confirmation.
validate_goal_fields_unconfirmed(self) ==
    IF self.board_type = "goal"
    THEN IF ~Truthy(self.objective) \/ ~Truthy(self.success_metrics)
         THEN "rejected"
         ELSE "accepted"
    ELSE "accepted"

\* Lines 24-30: the validator run after the fields are set.
validate_goal_fields(self) ==
    IF self.board_type = "goal" /\ self.goal_confirmed = "True"
    THEN IF ~Truthy(self.objective) \/ ~Truthy(self.success_metrics)
         THEN "rejected"
         ELSE "accepted"
    ELSE "accepted"

\* BoardCreate(**kw): build the instance, then validate it.
BoardCreate(kw) == validate_goal_fields(BoardBase(kw))

(* ---- frames of the gateway ---- *)

Frame(kind, k, v) ==
    [kind |-> kind, rid |-> k, val |-> v, agents |-> NoAgents, ts |-> Absent,
     sid |-> NoSid, content |-> ""]

\* A heartbeat or ping frame carrying agents_managed = a and no timestamp.
Beat(kind, a) ==
    [kind |-> kind, rid |-> NoRid, val |-> "-", agents |-> a, ts |-> Absent,
     sid |-> NoSid, content |-> ""]

\* A terminal_output frame for session sid carrying content.
TermOut(sid, content) ==
    [Frame("terminal_output", NoRid, "-") EXCEPT !.sid = sid, !.content = content]

\* The terminal_output frames the gateway can send.
TerminalFrames ==
    {TermOut(sid, ct) : sid \in TermSids \cup {NoSid, BadSid, UnknownSid},
                        ct \in Contents}

\* No client write is awaited.
NoRelay == [g |-> NoConn, client |-> 0, sid |-> NoSid, content |-> ""]

\* The frame fr with "timestamp": ts.
Stamped(fr, ts) == [fr EXCEPT !.ts = ts]

\* data.get("timestamp") of a heartbeat: not given, null, a number or a
\* string.
Timestamps == {Absent, None, "1700000000.5", "12:00"}

VARIABLES
    connections,        \* GatewayManager._connections: machine -> Record (0 = absent)
    lockHolder,         \* GatewayManager._lock: the task inside the critical section
    lockQ,              \* GatewayManager._lock: FIFO of tasks waiting to acquire
    pending_requests,   \* ConnectedGateway.pending_requests: Record -> set of request ids
    fut,                \* the asyncio.Future of each request id
    nextRid,            \* next fresh uuid4 request id
    hpc,                \* gateway_connect: position of each connection handler
    cleanupLog,         \* gateway_connect: cleanup calls each handler has completed
    dbConnected,        \* record_gateway_connect calls made (external store)
    closeInvoked,       \* transports on which close() has been invoked
    closeCode,          \* the code passed to close() for each transport (0 = not closed)
    superseded,         \* Records replaced by a later register
    lastReg,            \* machine -> Record installed by the latest completed register
    rpc,                \* request_with_response: position of each caller
    rgw,                \* request_with_response: the Record the caller holds
    rid,                \* request_with_response: the caller's request id
    rtimer,             \* asyncio.wait_for: the caller's timeout has fired
    outcome,            \* request_with_response: how the caller's last call ended
    spc,                \* send_task: position of each caller
    sgw,                \* send_message: the Record whose transport is being written
    sresult,            \* send_task: result of the caller's last call
    now,                \* the latest reading of the clock (utcnow)
    last_heartbeat_at,  \* ConnectedGateway.last_heartbeat_at of each Record
    agents_managed,     \* ConnectedGateway.agents_managed of each Record
    terminal_sessions,  \* ConnectedGateway.terminal_sessions: Record -> session ids
    bpc,                \* broadcast_to_organization: position of the caller
    borg,               \* broadcast_to_organization: the organization addressed
    btodo,              \* broadcast_to_organization: machines of the snapshot not yet tried
    bgw,                \* send_message of the broadcast: the Record being written
    sent_count,         \* broadcast_to_organization: sent_count
    delivered,          \* Records whose transport the broadcast message was written to
    board,              \* the keyword arguments given to BoardCreate
    verdict,            \* BoardCreate: not called yet, returned, or raised ValueError
    hdata,              \* _handle_heartbeat: data.get("timestamp") of the frame being answered
    beats,              \* timestamps of the heartbeats and pings each handler has processed
    dbHeartbeats,       \* update_gateway_heartbeat calls completed per connection id
    pongsSent,          \* timestamps of the pongs written to each transport
    tpc,                \* agent_terminal_websocket: position of each terminal client's handler
    tgw,                \* agent_terminal_websocket: connected_gateway.machine_id
    terr,               \* the failure each terminal client was told in an error frame
    tcode,              \* the code each terminal client's transport was closed with
    hrelay,             \* relay_terminal_output: the client write each dispatcher awaits
    received            \* the output frames written to each terminal client's transport

vars == <<connections, lockHolder, lockQ, pending_requests, fut, nextRid, hpc,
          cleanupLog, dbConnected, closeInvoked, closeCode, superseded, lastReg,
          rpc, rgw, rid, rtimer, outcome, spc, sgw, sresult,
          now, last_heartbeat_at, agents_managed, terminal_sessions,
          bpc, borg, btodo, bgw, sent_count, delivered,
          board, verdict, hdata, beats, dbHeartbeats, pongsSent,
          tpc, tgw, terr, tcode, hrelay, received>>

lockVars == <<lockHolder, lockQ>>
regVars == <<connections, superseded, lastReg>>
reqVars == <<rpc, rgw, rid, rtimer, outcome, nextRid>>
sndVars == <<spc, sgw, sresult>>
histVars == <<cleanupLog, dbConnected, closeInvoked, closeCode>>
recVars == <<now, last_heartbeat_at, agents_managed, terminal_sessions>>
bVars == <<bpc, borg, btodo, bgw, sent_count, delivered>>
boardVars == <<board, verdict>>
beatVars == <<hdata, beats, dbHeartbeats, pongsSent>>
termVars == <<tpc, tgw, terr, tcode, hrelay, received>>

\* The broker after construction: an empty registry, a free lock, and
\* nobody connected or calling.
InitBroker ==
    /\ connections = [m \in Machines |-> NoConn]
    /\ lockHolder = NoTask
    /\ lockQ = <<>>
    /\ pending_requests = [c \in AllConns |-> {}]
    /\ fut = [k \in Rids |-> FutNone]
    /\ nextRid = 1
    /\ hpc = [c \in AllConns |-> "new"]
    /\ cleanupLog = [c \in AllConns |-> <<>>]
    /\ dbConnected = {}
    /\ closeInvoked = {}
    /\ closeCode = [c \in AllConns |-> NoCode]
    /\ superseded = {}
    /\ lastReg = [m \in Machines |-> NoConn]
    /\ rpc = [r \in Requesters |-> "idle"]
    /\ rgw = [r \in Requesters |-> NoConn]
    /\ rid = [r \in Requesters |-> NoRid]
    /\ rtimer = [r \in Requesters |-> FALSE]
    /\ outcome = [r \in Requesters |-> NoOutcome]
    /\ spc = [s \in Senders |-> "idle"]
    /\ sgw = [s \in Senders |-> NoConn]
    /\ sresult = [s \in Senders |-> "none"]
    /\ now = 0
    /\ last_heartbeat_at = [c \in AllConns |-> 0]
    /\ agents_managed = [c \in AllConns |-> 0]
    /\ terminal_sessions = [c \in AllConns |-> {}]
    /\ bpc = "idle"
    /\ borg = "-"
    /\ btodo = {}
    /\ bgw = NoConn
    /\ sent_count = 0
    /\ delivered = {}
    /\ hdata = [c \in AllConns |-> Absent]
    /\ beats = [c \in AllConns |-> <<>>]
    /\ dbHeartbeats = [c \in AllConns |-> 0]
    /\ pongsSent = [c \in AllConns |-> <<>>]
    /\ tpc = [t \in Terms |-> "new"]
    /\ tgw = [t \in Terms |-> "-"]
    /\ terr = [t \in Terms |-> "none"]
    /\ tcode = [t \in Terms |-> NoCode]
    /\ hrelay = [c \in AllConns |-> NoRelay]
    /\ received = [t \in Terms |-> {}]

\* The broker after construction, and no board submitted.
Init ==
    /\ InitBroker
    /\ board = NoBoard
    /\ verdict = "none"

(* ---- asyncio.Lock ---- *)

\* A lock that lets everybody in.
LockIgnored == TRUE

\* Lock.acquire returns without suspending only when the lock is unlocked
\* and nobody waits for it.
LockFree == lockHolder = NoTask /\ lockQ = <<>>

\* Lock.acquire when the lock is taken: the task joins the FIFO of waiters.
Enqueue(t) == lockQ' = Append(lockQ, t) /\ UNCHANGED lockHolder

\* Lock.release by the holder (or by a task that took and released the
\* lock within one step): the first waiter, if any, is the next holder.
Release ==
    IF lockQ = <<>>
    THEN lockHolder' = NoTask /\ UNCHANGED lockQ
    ELSE lockHolder' = Head(lockQ) /\ lockQ' = Tail(lockQ)

(* ---- GatewayManager.unregister ---- *)

\* unregister without lines 75-77: the futures are left as they are.
CancelNothing(futs, rids) == futs

\* Lines 75-77: cancel every future of the removed Record that is not done.
CancelPending(futs, rids) ==
    [k \in Rids |-> IF k \in rids /\ futs[k].st = "pending"
                    THEN FutCancelled ELSE futs[k]]

\* unregister that cancels the pending requests and forgets to pop.
unregister_keeps_record(m) ==
    IF connections[m] # NoConn
    THEN /\ fut' = CancelPending(fut, pending_requests[connections[m]])
         /\ UNCHANGED connections
    ELSE UNCHANGED <<connections, fut>>

\* Lines 72-77, inside the lock: pop the Record of the machine if present
\* and cancel its pending requests.
unregister(m) ==
    IF connections[m] # NoConn
    THEN /\ connections' = [connections EXCEPT ![m] = NoConn]
         /\ fut' = CancelPending(fut, pending_requests[connections[m]])
    ELSE UNCHANGED <<connections, fut>>

(* ---- the clock ---- *)

\* utcnow(): a reading of the clock taken after the reading prev is later
\* than prev.
utcnow(prev) == prev + 1

(* ---- GatewayManager.register ---- *)

\* Lines 59-67: build the new Record (connected_at and last_heartbeat_at
\* each take a reading of the clock, agents_managed is 0 and the tables are
\* empty), install it under the machine identity and leave the critical
\* section.
register_install(c) ==
    LET m == MachineOf(c)
        old == connections[m]
        connected_at == utcnow(now)
    IN  /\ connections' = [connections EXCEPT ![m] = c]
        /\ superseded' = superseded \cup (IF old # NoConn THEN {old} ELSE {})
        /\ lastReg' = [lastReg EXCEPT ![m] = c]
        /\ last_heartbeat_at' = [last_heartbeat_at EXCEPT ![c] = utcnow(connected_at)]
        /\ now' = utcnow(connected_at)
        /\ UNCHANGED <<agents_managed, terminal_sessions>>
        /\ Release

\* register that installs the new Record before it closes the previous
\* transport: the Record can be found while register is still suspended.
register_enter_early(c) ==
    LET m == MachineOf(c)
        old == connections[m]
    IN  IF old # NoConn
        THEN /\ closeInvoked' = closeInvoked \cup {old}
             /\ closeCode' = [closeCode EXCEPT ![old] = NormalClosure]
             /\ lockHolder' = HTask(c)
             /\ connections' = [connections EXCEPT ![m] = c]
             /\ UNCHANGED <<lockQ, superseded, lastReg, recVars>>
             /\ hpc' = [hpc EXCEPT ![c] = "reg_closing"]
        ELSE /\ register_install(c)
             /\ hpc' = [hpc EXCEPT ![c] = "welcome"]
             /\ UNCHANGED <<closeInvoked, closeCode>>

\* register without lines 52-57: the previous transport is never closed.
register_enter_noclose(c) ==
    /\ register_install(c)
    /\ hpc' = [hpc EXCEPT ![c] = "welcome"]
    /\ UNCHANGED <<closeInvoked, closeCode>>

\* Lines 50-57, entered with the lock acquired: when the machine already has
\* a Record, invoke close() on its transport and suspend, keeping the lock;
\* otherwise install at once.
register_enter(c) ==
    LET m == MachineOf(c)
        old == connections[m]
    IN  IF old # NoConn
        THEN /\ closeInvoked' = closeInvoked \cup {old}
             /\ closeCode' = [closeCode EXCEPT ![old] = NormalClosure]
             /\ lockHolder' = HTask(c)
             /\ UNCHANGED <<lockQ, regVars, recVars>>
             /\ hpc' = [hpc EXCEPT ![c] = "reg_closing"]
        ELSE /\ register_install(c)
             /\ hpc' = [hpc EXCEPT ![c] = "welcome"]
             /\ UNCHANGED <<closeInvoked, closeCode>>

(* ---- gateway_connect: handshake and registration ---- *)

\* A rejection that still records the connection externally.
authentication_failed_recorded(c) ==
    /\ hpc' = [hpc EXCEPT ![c] = "rejected"]
    /\ closeInvoked' = closeInvoked \cup {c}
    /\ closeCode' = [closeCode EXCEPT ![c] = AuthFailedCode]
    /\ dbConnected' = dbConnected \cup {c}

\* Lines 278-280: close the transport with code 4001 and return.
authentication_failed(c) ==
    /\ hpc' = [hpc EXCEPT ![c] = "rejected"]
    /\ closeInvoked' = closeInvoked \cup {c}
    /\ closeCode' = [closeCode EXCEPT ![c] = AuthFailedCode]
    /\ UNCHANGED dbConnected

\* Lines 275-281: the external verifier accepts or rejects the token; a
\* rejected connection is closed with code 4001 and the handler returns.
Authenticate(c) ==
    /\ hpc[c] = "new"
    /\ \E ok \in BOOLEAN :
         IF ok
         THEN /\ hpc' = [hpc EXCEPT ![c] = "accepted"]
              /\ UNCHANGED <<closeInvoked, closeCode, dbConnected>>
         ELSE authentication_failed(c)
    /\ UNCHANGED <<lockVars, regVars, pending_requests, fut, cleanupLog,
                   reqVars, sndVars>>
    /\ UNCHANGED recVars
    /\ UNCHANGED bVars
    /\ UNCHANGED boardVars
    /\ UNCHANGED beatVars
    /\ UNCHANGED termVars

\* Lines 294-302 and 50: record the connection externally, then call register,
\* which acquires the lock or queues for it.
RecordConnect(c) ==
    /\ hpc[c] = "accepted"
    /\ dbConnected' = dbConnected \cup {c}
    /\ IF LockFree
       THEN register_enter(c)
       ELSE /\ Enqueue(HTask(c))
            /\ hpc' = [hpc EXCEPT ![c] = "reg_wait"]
            /\ UNCHANGED <<regVars, closeInvoked, closeCode, recVars>>
    /\ UNCHANGED <<pending_requests, fut, cleanupLog, reqVars, sndVars>>
    /\ UNCHANGED bVars
    /\ UNCHANGED boardVars
    /\ UNCHANGED beatVars
    /\ UNCHANGED termVars

\* Line 50: the queued register is handed the lock and runs lines 52-57.
RegisterLocked(c) ==
    /\ hpc[c] = "reg_wait"
    /\ lockHolder = HTask(c)
    /\ register_enter(c)
    /\ UNCHANGED <<pending_requests, fut, cleanupLog, dbConnected,
                   reqVars, sndVars>>
    /\ UNCHANGED bVars
    /\ UNCHANGED boardVars
    /\ UNCHANGED beatVars
    /\ UNCHANGED termVars

\* Lines 55-67: close() of the previous transport has returned or raised
\* (the exception is swallowed); the new Record is installed either way.
RegisterClosed(c) ==
    /\ hpc[c] = "reg_closing"
    /\ \E closeRaised \in BOOLEAN :
         /\ register_install(c)
         /\ hpc' = [hpc EXCEPT ![c] = "welcome"]
    /\ UNCHANGED <<pending_requests, fut, histVars, reqVars, sndVars>>
    /\ UNCHANGED bVars
    /\ UNCHANGED boardVars
    /\ UNCHANGED beatVars
    /\ UNCHANGED termVars

\* Lines 311-315: the welcome frame is written outside the try block; a
\* failed write propagates out of gateway_connect with no cleanup.
Welcome(c) ==
    /\ hpc[c] = "welcome"
    /\ \E ok \in BOOLEAN :
         IF ok
         THEN /\ hpc' = [hpc EXCEPT ![c] = "pending_tasks"]
         ELSE /\ hpc' = [hpc EXCEPT ![c] = "crashed"]
    /\ UNCHANGED <<lockVars, regVars, pending_requests, fut, histVars,
                   reqVars, sndVars>>
    /\ UNCHANGED recVars
    /\ UNCHANGED bVars
    /\ UNCHANGED boardVars
    /\ UNCHANGED beatVars
    /\ UNCHANGED termVars

\* Lines 318 and 50-81: the queued tasks of the machine are written, also
\* outside the try block; an error of the store or of a write propagates.
SendPendingTasks(c) ==
    /\ hpc[c] = "pending_tasks"
    /\ \E res \in {"none", "sent", "failed"} :
         /\ hpc' = [hpc EXCEPT ![c] = IF res = "failed" THEN "crashed" ELSE "loop"]
    /\ UNCHANGED <<lockVars, regVars, pending_requests, fut, histVars,
                   reqVars, sndVars>>
    /\ UNCHANGED recVars
    /\ UNCHANGED bVars
    /\ UNCHANGED boardVars
    /\ UNCHANGED beatVars
    /\ UNCHANGED termVars

(* ---- GatewayManager.handle_response ---- *)

\* handle_response without the done() test of line 202.
handle_response_overwrite(m, k, v) ==
    LET g == connections[m]
    IN  IF g # NoConn /\ k \in pending_requests[g]
        THEN fut' = [fut EXCEPT ![k] = FutResult(v)]
        ELSE UNCHANGED fut

\* Lines 197-203: complete the future stored under the request id in the
\* machine's current Record, when there is one and it is not done.
handle_response(m, k, v) ==
    LET g == connections[m]
    IN  IF g # NoConn /\ k \in pending_requests[g] /\ ~FutDone(fut[k])
        THEN fut' = [fut EXCEPT ![k] = FutResult(v)]
        ELSE UNCHANGED fut

\* Line 201: pending_requests.get(request_id) raises TypeError when the
\* machine has a Record and the request id is unhashable.
ResponseRaises(m, k) == k = BadRid /\ connections[m] # NoConn

\* machine_gateway.py lines 166-174: a frame without a request id (missing
\* or empty) is skipped.
HandleResponseFrame(c, k, v) ==
    IF k # NoRid
    THEN handle_response(MachineOf(c), k, v)
    ELSE UNCHANGED fut

(* ---- gateway_connect: dispatcher loop ---- *)

BeatKinds == {"heartbeat", "ping"}

FrameRids == Rids \cup {NoRid, BadRid}

\* What the gateway can send: text that is not JSON, JSON that is not an
\* object, an unrecognised kind, a kind that is not hashable (a JSON array
\* or object under "type"), and responses carrying any request id (issued,
\* not yet issued, none, or not a string) and any payload.
Frames ==
    {Frame(kind, NoRid, "-") :
        kind \in {"malformed", "not_object", "unknown", "bad_kind"}}
        \cup {Frame("response", k, v) : k \in FrameRids, v \in Replies}

\* The heartbeats and pings the gateway can send: without agents_managed,
\* with a count, or with a value that is not a number.
BeatFrames ==
    {Beat(kind, a) : kind \in BeatKinds, a \in AgentCounts \cup {NoAgents, BadAgents}}

\* The same heartbeats and pings with any timestamp.
StampedBeatFrames == {Stamped(fr, ts) : fr \in BeatFrames, ts \in Timestamps}

\* The heartbeats and pings processed so far for a Record: the readings of
\* the clock that were not taken by the creation of a Record.
BeatsProcessed ==
    now - 2 * Cardinality({g \in AllConns : last_heartbeat_at[g] > 0})

\* update_heartbeat that touches the Record only when a count is reported.
update_heartbeat_when_reported(m, a) ==
    LET g == connections[m]
    IN  IF g # NoConn /\ a # NoAgents
        THEN /\ now' = utcnow(now)
             /\ last_heartbeat_at' = [last_heartbeat_at EXCEPT ![g] = utcnow(now)]
             /\ agents_managed' = [agents_managed EXCEPT ![g] = a]
        ELSE UNCHANGED <<now, last_heartbeat_at, agents_managed>>

\* update_heartbeat that stores 0 when no count is reported
\* (agents_managed or 0).
update_heartbeat_resets(m, a) ==
    LET g == connections[m]
    IN  IF g # NoConn
        THEN /\ now' = utcnow(now)
             /\ last_heartbeat_at' = [last_heartbeat_at EXCEPT ![g] = utcnow(now)]
             /\ agents_managed' = [agents_managed EXCEPT ![g] =
                                      IF a = NoAgents THEN 0 ELSE a]
        ELSE UNCHANGED <<now, last_heartbeat_at, agents_managed>>

\* gateway_manager.py lines 109-113: with a Record for the machine, set its
\* last_heartbeat_at to a reading of the clock, and its agents_managed to a
\* when a is not None; without a Record do nothing.
update_heartbeat(m, a) ==
    LET g == connections[m]
    IN  IF g # NoConn
        THEN /\ now' = utcnow(now)
             /\ last_heartbeat_at' = [last_heartbeat_at EXCEPT ![g] = utcnow(now)]
             /\ agents_managed' = IF a # NoAgents
                                  THEN [agents_managed EXCEPT ![g] = a]
                                  ELSE agents_managed
        ELSE UNCHANGED <<now, last_heartbeat_at, agents_managed>>

\* A pong that carries no timestamp.
pong_timestamp_dropped(ts) == None

\* Line 110: data.get("timestamp"), None when the frame has none.
pong_timestamp(ts) == IF ts = Absent THEN None ELSE ts

\* Lines 92-101: a heartbeat or ping updates the Record in memory, then
\* calls the external store.
handle_heartbeat(c, fr) ==
    /\ update_heartbeat(MachineOf(c), fr.agents)
    /\ hpc' = [hpc EXCEPT ![c] = "persist"]

(* ---- GatewayManager.relay_terminal_output ---- *)

\* The transport of the terminal client whose handler made session id sid.
ClientOf(sid) == CHOOSE t \in Terms : SidOf(t) = sid

\* The lookup of line 270 returning the transport of any bound session.
client_ws_any(g, sid) ==
    {ClientOf(x) : x \in terminal_sessions[g]}

\* Line 270: gateway.terminal_sessions.get(session_id), the transport bound
\* to the session id in the Record g, if any.
client_ws(g, sid) ==
    IF sid \in terminal_sessions[g] THEN {ClientOf(sid)} ELSE {}

\* Line 270: the lookup raises TypeError when the machine has a Record and
\* the session id is unhashable.
RelayRaises(m, sid) == sid = BadSid /\ connections[m] # NoConn

\* Lines 266-279: without a Record of the machine, or without a transport
\* bound to the session id, return False; otherwise start writing the
\* output frame to the bound transport.
relay_terminal_output(c, m, sid, content) ==
    LET g == connections[m]
    IN  IF g = NoConn \/ client_ws(g, sid) = {}
        THEN UNCHANGED <<hpc, hrelay>>
        ELSE \E t \in client_ws(g, sid) :
               /\ hrelay' = [hrelay EXCEPT ![c] =
                     [g |-> g, client |-> t, sid |-> sid, content |-> content]]
               /\ hpc' = [hpc EXCEPT ![c] = "relay"]

\* machine_gateway.py lines 205-213: a frame without a session id (missing
\* or empty) is skipped; the exception of the lookup propagates.
handle_terminal_output(c, fr) ==
    IF fr.sid = NoSid
    THEN UNCHANGED <<hpc, hrelay>>
    ELSE IF RelayRaises(MachineOf(c), fr.sid)
         THEN /\ hpc' = [hpc EXCEPT ![c] = "cleanup"]
              /\ UNCHANGED hrelay
         ELSE relay_terminal_output(c, MachineOf(c), fr.sid, fr.content)

\* The client write with its failure left uncaught: the binding stays and
\* the exception leaves the dispatcher loop.
client_write_returns_uncaught(c, ok) ==
    /\ received' = IF ok
                   THEN [received EXCEPT ![hrelay[c].client] =
                            @ \cup {<<hrelay[c].sid, hrelay[c].content>>}]
                   ELSE received
    /\ UNCHANGED terminal_sessions
    /\ hpc' = [hpc EXCEPT ![c] = IF ok THEN "loop" ELSE "cleanup"]

\* Lines 274-284: json.dumps and send_text return (ok) and the frame
\* {"type": "output", "content": content} is on the client transport, or
\* one of them raises and the session id is popped from the Record held;
\* the dispatcher loop goes on either way.
client_write_returns(c, ok) ==
    /\ received' = IF ok
                   THEN [received EXCEPT ![hrelay[c].client] =
                            @ \cup {<<hrelay[c].sid, hrelay[c].content>>}]
                   ELSE received
    /\ terminal_sessions' = IF ok
                            THEN terminal_sessions
                            ELSE [terminal_sessions EXCEPT ![hrelay[c].g] =
                                     @ \ {hrelay[c].sid}]
    /\ hpc' = [hpc EXCEPT ![c] = "loop"]

(* ---- _process_message ---- *)

\* Lines 216-255: decode and route one frame.  json.loads failing returns;
\* a decoded value without .get raises AttributeError; an unknown kind is
\* logged; handlers.get of an unhashable kind raises TypeError; a heartbeat
\* updates the stores and starts writing the pong; a response is handed to
\* handle_response, whose exception propagates; a terminal_output is handed
\* to relay_terminal_output.
process_message(c, fr) ==
    CASE fr.kind = "malformed" ->
            UNCHANGED <<hpc, fut, now, last_heartbeat_at, agents_managed, hrelay>>
      [] fr.kind = "unknown" ->
            UNCHANGED <<hpc, fut, now, last_heartbeat_at, agents_managed, hrelay>>
      [] fr.kind \in {"not_object", "bad_kind"} ->
            /\ hpc' = [hpc EXCEPT ![c] = "cleanup"]
            /\ UNCHANGED <<fut, now, last_heartbeat_at, agents_managed, hrelay>>
      [] fr.kind \in BeatKinds ->
            /\ handle_heartbeat(c, fr)
            /\ UNCHANGED <<fut, hrelay>>
      [] fr.kind = "response" ->
            /\ IF ResponseRaises(MachineOf(c), fr.rid)
               THEN /\ hpc' = [hpc EXCEPT ![c] = "cleanup"]
                    /\ UNCHANGED fut
               ELSE /\ HandleResponseFrame(c, fr.rid, fr.val)
                    /\ UNCHANGED hpc
            /\ UNCHANGED <<now, last_heartbeat_at, agents_managed, hrelay>>
      [] fr.kind = "terminal_output" ->
            /\ handle_terminal_output(c, fr)
            /\ UNCHANGED <<fut, now, last_heartbeat_at, agents_managed>>

\* A dispatcher that takes no frame while a caller waits for a reply on
\* its Record.
receive_ready_unless_awaited(c) ==
    /\ hpc[c] = "loop"
    /\ \A r \in Requesters : ~(rpc[r] = "waiting" /\ rgw[r] = c)

\* Lines 320-327: the handler is suspended in receive_text, whatever the
\* callers of the manager are doing.
receive_ready(c) == hpc[c] = "loop"

\* Lines 324-334: the frame fr arrives and is processed.
ReceiveFrame(c, fr) ==
    /\ receive_ready(c)
    /\ (fr.kind \in BeatKinds /\ connections[MachineOf(c)] # NoConn) =>
           BeatsProcessed < MaxBeats
    /\ fr.kind \in BeatKinds => Len(beats[c]) < MaxBeats
    /\ process_message(c, fr)
    /\ IF fr.kind \in BeatKinds
       THEN /\ hdata' = [hdata EXCEPT ![c] = fr.ts]
            /\ beats' = [beats EXCEPT ![c] = Append(@, fr.ts)]
       ELSE UNCHANGED <<hdata, beats>>
    /\ UNCHANGED <<lockVars, regVars, pending_requests, histVars,
                   reqVars, sndVars, terminal_sessions, dbHeartbeats, pongsSent>>
    /\ UNCHANGED bVars
    /\ UNCHANGED boardVars
    /\ UNCHANGED <<tpc, tgw, terr, tcode, received>>

Receive(c) == \E fr \in Frames : ReceiveFrame(c, fr)

\* A heartbeat or ping arrives and is processed.
ReceiveBeat(c) == \E fr \in BeatFrames : ReceiveFrame(c, fr)

\* A heartbeat or ping with any timestamp arrives and is processed.
ReceiveStampedBeat(c) == \E fr \in StampedBeatFrames : ReceiveFrame(c, fr)

\* Lines 101-108: update_gateway_heartbeat returns and the write of the
\* pong starts, or it raises and the exception leaves the loop.
HeartbeatPersisted(c) ==
    /\ hpc[c] = "persist"
    /\ \E ok \in BOOLEAN :
         IF ok
         THEN /\ dbHeartbeats' = [dbHeartbeats EXCEPT ![c] = @ + 1]
              /\ hpc' = [hpc EXCEPT ![c] = "pong"]
              /\ UNCHANGED hdata
         ELSE /\ hpc' = [hpc EXCEPT ![c] = "cleanup"]
              /\ hdata' = [hdata EXCEPT ![c] = Absent]
              /\ UNCHANGED dbHeartbeats
    /\ UNCHANGED <<lockVars, regVars, pending_requests, fut, histVars,
                   reqVars, sndVars, beats, pongsSent>>
    /\ UNCHANGED recVars
    /\ UNCHANGED bVars
    /\ UNCHANGED boardVars
    /\ UNCHANGED termVars

\* A terminal_output frame arrives and is processed.
ReceiveTerminalOutput(c) == \E fr \in TerminalFrames : ReceiveFrame(c, fr)

\* The client write awaited by the dispatcher of c ends.
RelayWritten(c) ==
    /\ hpc[c] = "relay"
    /\ \E ok \in BOOLEAN : client_write_returns(c, ok)
    /\ hrelay' = [hrelay EXCEPT ![c] = NoRelay]
    /\ UNCHANGED <<lockVars, regVars, pending_requests, fut, histVars,
                   reqVars, sndVars, now, last_heartbeat_at, agents_managed>>
    /\ UNCHANGED <<tpc, tgw, terr, tcode>>
    /\ UNCHANGED bVars
    /\ UNCHANGED boardVars
    /\ UNCHANGED beatVars

\* Lines 324-327 and 341-348: receive_text raises WebSocketDisconnect or
\* another error; both leave the loop for the finally block.
ReceiveFails(c) ==
    /\ hpc[c] = "loop"
    /\ \E cause \in {"disconnect", "read_error"} :
         hpc' = [hpc EXCEPT ![c] = "cleanup"]
    /\ UNCHANGED <<lockVars, regVars, pending_requests, fut, histVars,
                   reqVars, sndVars>>
    /\ UNCHANGED recVars
    /\ UNCHANGED bVars
    /\ UNCHANGED boardVars
    /\ UNCHANGED beatVars
    /\ UNCHANGED termVars

\* The idle timeout taken as the sign of a dead connection: the handler
\* leaves the loop instead of probing.
IdleTimeoutCloses(c) ==
    /\ hpc[c] = "loop"
    /\ hpc' = [hpc EXCEPT ![c] = "cleanup"]
    /\ UNCHANGED <<lockVars, regVars, pending_requests, fut, histVars,
                   reqVars, sndVars>>
    /\ UNCHANGED recVars
    /\ UNCHANGED bVars
    /\ UNCHANGED boardVars
    /\ UNCHANGED beatVars
    /\ UNCHANGED termVars

\* Lines 335-340: no frame within HEARTBEAT_TIMEOUT; start writing a ping.
IdleTimeout(c) ==
    /\ hpc[c] = "loop"
    /\ hpc' = [hpc EXCEPT ![c] = "ping"]
    /\ UNCHANGED <<lockVars, regVars, pending_requests, fut, histVars,
                   reqVars, sndVars>>
    /\ UNCHANGED recVars
    /\ UNCHANGED bVars
    /\ UNCHANGED boardVars
    /\ UNCHANGED beatVars
    /\ UNCHANGED termVars

\* Lines 108-111: the pong written to the transport of c carries the
\* timestamp of the frame being answered; a ping is not a pong.
pong_written(c) ==
    IF hpc[c] = "pong"
    THEN pongsSent' = [pongsSent EXCEPT ![c] = Append(@, pong_timestamp(hdata[c]))]
    ELSE UNCHANGED pongsSent

\* The probe write with its failure escaping the handler instead of being
\* caught by the `except Exception` of line 343.
ProbeWrittenEscapes(c) ==
    /\ hpc[c] \in {"ping", "pong"}
    /\ \E ok \in BOOLEAN :
         IF ok
         THEN /\ hpc' = [hpc EXCEPT ![c] = "loop"]
              /\ pong_written(c)
         ELSE /\ hpc' = [hpc EXCEPT ![c] = "crashed"]
              /\ UNCHANGED pongsSent
    /\ UNCHANGED <<lockVars, regVars, pending_requests, fut, histVars,
                   reqVars, sndVars>>
    /\ UNCHANGED recVars
    /\ UNCHANGED bVars
    /\ UNCHANGED boardVars
    /\ hdata' = [hdata EXCEPT ![c] = Absent]
    /\ UNCHANGED <<beats, dbHeartbeats>>
    /\ UNCHANGED termVars

\* Lines 337-348 (ping) and 100-111 (pong): the write completes and the loop
\* goes on, or it raises and `except Exception` leads to the finally block.
ProbeWritten(c) ==
    /\ hpc[c] \in {"ping", "pong"}
    /\ \E ok \in BOOLEAN :
         IF ok
         THEN /\ hpc' = [hpc EXCEPT ![c] = "loop"]
              /\ pong_written(c)
         ELSE /\ hpc' = [hpc EXCEPT ![c] = "cleanup"]
              /\ UNCHANGED pongsSent
    /\ UNCHANGED <<lockVars, regVars, pending_requests, fut, histVars,
                   reqVars, sndVars>>
    /\ UNCHANGED recVars
    /\ UNCHANGED bVars
    /\ UNCHANGED boardVars
    /\ hdata' = [hdata EXCEPT ![c] = Absent]
    /\ UNCHANGED <<beats, dbHeartbeats>>
    /\ UNCHANGED termVars

(* ---- gateway_connect: finally block ---- *)

\* Line 351 and gateway_manager.py 71-77: unregister the machine identity,
\* at once when the lock is free, else after queueing for it.
CleanupUnregister(c) ==
    /\ hpc[c] = "cleanup"
    /\ IF LockFree
       THEN /\ unregister(MachineOf(c))
            /\ cleanupLog' = [cleanupLog EXCEPT ![c] = Append(@, "unregister")]
            /\ hpc' = [hpc EXCEPT ![c] = "record_disc"]
            /\ UNCHANGED lockVars
       ELSE /\ Enqueue(HTask(c))
            /\ hpc' = [hpc EXCEPT ![c] = "unreg_wait"]
            /\ UNCHANGED <<connections, fut, cleanupLog>>
    /\ UNCHANGED <<superseded, lastReg, pending_requests, dbConnected,
                   closeInvoked, closeCode, reqVars, sndVars>>
    /\ UNCHANGED recVars
    /\ UNCHANGED bVars
    /\ UNCHANGED boardVars
    /\ UNCHANGED beatVars
    /\ UNCHANGED termVars

\* Line 71-77: the queued unregister is handed the lock.
CleanupUnregisterLocked(c) ==
    /\ hpc[c] = "unreg_wait"
    /\ lockHolder = HTask(c)
    /\ unregister(MachineOf(c))
    /\ Release
    /\ cleanupLog' = [cleanupLog EXCEPT ![c] = Append(@, "unregister")]
    /\ hpc' = [hpc EXCEPT ![c] = "record_disc"]
    /\ UNCHANGED <<superseded, lastReg, pending_requests, dbConnected,
                   closeInvoked, closeCode, reqVars, sndVars>>
    /\ UNCHANGED recVars
    /\ UNCHANGED bVars
    /\ UNCHANGED boardVars
    /\ UNCHANGED beatVars
    /\ UNCHANGED termVars

\* Lines 352-357: record the disconnect of this connection id externally.
RecordDisconnect(c) ==
    /\ hpc[c] = "record_disc"
    /\ cleanupLog' = [cleanupLog EXCEPT ![c] = Append(@, "record_disconnect")]
    /\ hpc' = [hpc EXCEPT ![c] = "done"]
    /\ UNCHANGED <<lockVars, regVars, pending_requests, fut, dbConnected,
                   closeInvoked, closeCode, reqVars, sndVars>>
    /\ UNCHANGED recVars
    /\ UNCHANGED bVars
    /\ UNCHANGED boardVars
    /\ UNCHANGED beatVars
    /\ UNCHANGED termVars

(* ---- GatewayManager.request_with_response ---- *)

\* wait_for with the timeout left uncaught: expiry raises to the caller.
WaitOutcomeTimeoutRaises(f) ==
    CASE f.st = "result" -> Outcome("reply", f.val)
      [] OTHER -> Outcome("raised", "-")

\* Lines 180-185: what the caller gets when asyncio.wait_for(future) ends.
\* A result is returned; a future cancelled by somebody else makes wait_for
\* raise CancelledError, which is a BaseException and passes both except
\* clauses; a pending future whose timeout has fired is cancelled by
\* wait_for, which raises TimeoutError, and the caller returns None.
WaitOutcome(f) ==
    CASE f.st = "result" -> Outcome("reply", f.val)
      [] f.st = "cancelled" -> Outcome("raised", "-")
      [] OTHER -> Outcome("absent", "-")

\* The finally block without the pop: the entry stays in the Record.
EndCallNoPop(r, out) ==
    /\ fut' = [fut EXCEPT ![rid[r]] = FutNone]
    /\ outcome' = [outcome EXCEPT ![r] = out]
    /\ rpc' = [rpc EXCEPT ![r] = "idle"]
    /\ rgw' = [rgw EXCEPT ![r] = NoConn]
    /\ rid' = [rid EXCEPT ![r] = NoRid]
    /\ rtimer' = [rtimer EXCEPT ![r] = FALSE]
    /\ UNCHANGED <<nextRid, pending_requests>>

\* Lines 186-187: the call ends; the finally block pops the request id from
\* the Record the caller holds, and the future is dropped.
EndCall(r, out) ==
    /\ pending_requests' = [pending_requests EXCEPT ![rgw[r]] = @ \ {rid[r]}]
    /\ fut' = [fut EXCEPT ![rid[r]] = FutNone]
    /\ outcome' = [outcome EXCEPT ![r] = out]
    /\ rpc' = [rpc EXCEPT ![r] = "idle"]
    /\ rgw' = [rgw EXCEPT ![r] = NoConn]
    /\ rid' = [rid EXCEPT ![r] = NoRid]
    /\ rtimer' = [rtimer EXCEPT ![r] = FALSE]
    /\ UNCHANGED nextRid

\* request_with_response without the test of lines 161-162: a machine with
\* no Record is served through the Record registered last for it.
request_with_response_stale(r, m) ==
    LET g == IF connections[m] # NoConn THEN connections[m] ELSE lastReg[m]
    IN  /\ g # NoConn
        /\ nextRid \in Rids
        /\ nextRid' = nextRid + 1
        /\ fut' = [fut EXCEPT ![nextRid] = FutPending]
        /\ pending_requests' = [pending_requests EXCEPT ![g] = @ \cup {nextRid}]
        /\ rpc' = [rpc EXCEPT ![r] = "sending"]
        /\ rgw' = [rgw EXCEPT ![r] = g]
        /\ rid' = [rid EXCEPT ![r] = nextRid]
        /\ outcome' = [outcome EXCEPT ![r] = NoOutcome]
        /\ UNCHANGED rtimer

\* Lines 160-179: look up the Record; without one return None; otherwise
\* draw a fresh request id, store a new future under it and start writing
\* the request frame.
request_with_response(r, m) ==
    LET g == connections[m]
    IN  IF g = NoConn
        THEN /\ outcome' = [outcome EXCEPT ![r] = Outcome("absent", "-")]
             /\ UNCHANGED <<pending_requests, fut, rpc, rgw, rid, rtimer, nextRid>>
        ELSE /\ nextRid \in Rids
             /\ nextRid' = nextRid + 1
             /\ fut' = [fut EXCEPT ![nextRid] = FutPending]
             /\ pending_requests' = [pending_requests EXCEPT ![g] = @ \cup {nextRid}]
             /\ rpc' = [rpc EXCEPT ![r] = "sending"]
             /\ rgw' = [rgw EXCEPT ![r] = g]
             /\ rid' = [rid EXCEPT ![r] = nextRid]
             /\ outcome' = [outcome EXCEPT ![r] = NoOutcome]
             /\ UNCHANGED rtimer

\* A caller invokes request_with_response for machine m.
RequestOn(r, m) ==
    /\ rpc[r] = "idle"
    /\ request_with_response(r, m)
    /\ UNCHANGED <<lockVars, regVars, hpc, histVars, sndVars>>
    /\ UNCHANGED recVars
    /\ UNCHANGED bVars
    /\ UNCHANGED boardVars
    /\ UNCHANGED beatVars
    /\ UNCHANGED termVars

Request(r) == \E m \in Machines : RequestOn(r, m)

\* The write of the request frame with its failure swallowed: the caller
\* goes on to wait for a reply that was never asked for.
send_request_swallowed(r, ok) ==
    /\ rpc' = [rpc EXCEPT ![r] = "waiting"]
    /\ UNCHANGED <<pending_requests, fut, rgw, rid, rtimer, outcome, nextRid>>

\* Lines 179-187: send_text of the request frame returns (ok) and the caller
\* enters wait_for, or it raises, `except Exception` returns None and the
\* finally block pops the entry.
send_request(r, ok) ==
    IF ok
    THEN /\ rpc' = [rpc EXCEPT ![r] = "waiting"]
         /\ UNCHANGED <<pending_requests, fut, rgw, rid, rtimer, outcome, nextRid>>
    ELSE EndCall(r, Outcome("absent", "-"))

\* The write of the request frame of caller r ends.
RequestWritten(r) ==
    /\ rpc[r] = "sending"
    /\ \E ok \in BOOLEAN : send_request(r, ok)
    /\ UNCHANGED <<lockVars, regVars, hpc, histVars, sndVars>>
    /\ UNCHANGED recVars
    /\ UNCHANGED bVars
    /\ UNCHANGED boardVars
    /\ UNCHANGED beatVars
    /\ UNCHANGED termVars

\* asyncio.wait_for: the timeout handle fires and wakes the caller.
TimerFires(r) ==
    /\ rpc[r] = "waiting"
    /\ ~rtimer[r]
    /\ rtimer' = [rtimer EXCEPT ![r] = TRUE]
    /\ UNCHANGED <<lockVars, regVars, hpc, histVars, sndVars,
                   pending_requests, fut, rpc, rgw, rid, outcome, nextRid>>
    /\ UNCHANGED recVars
    /\ UNCHANGED bVars
    /\ UNCHANGED boardVars
    /\ UNCHANGED beatVars
    /\ UNCHANGED termVars

\* Lines 180-187: the caller wakes up because the future is done or the
\* timeout has fired, and the call ends.
Resume(r) ==
    /\ rpc[r] = "waiting"
    /\ FutDone(fut[rid[r]]) \/ rtimer[r]
    /\ EndCall(r, WaitOutcome(fut[rid[r]]))
    /\ UNCHANGED <<lockVars, regVars, hpc, histVars, sndVars>>
    /\ UNCHANGED recVars
    /\ UNCHANGED bVars
    /\ UNCHANGED boardVars
    /\ UNCHANGED beatVars
    /\ UNCHANGED termVars

(* ---- GatewayManager.send_task / send_message ---- *)

\* Lines 121-127 and 143-149: look up the Record; without one return False,
\* otherwise start writing the task frame.
send_message(s, m) ==
    LET g == connections[m]
    IN  IF g = NoConn
        THEN /\ sresult' = [sresult EXCEPT ![s] = "false"]
             /\ UNCHANGED <<spc, sgw>>
        ELSE /\ spc' = [spc EXCEPT ![s] = "sending"]
             /\ sgw' = [sgw EXCEPT ![s] = g]
             /\ sresult' = [sresult EXCEPT ![s] = "none"]

SendTask(s) ==
    /\ spc[s] = "idle"
    /\ \E m \in Machines : send_message(s, m)
    /\ UNCHANGED <<lockVars, regVars, pending_requests, fut, hpc, histVars,
                   reqVars>>
    /\ UNCHANGED recVars
    /\ UNCHANGED bVars
    /\ UNCHANGED boardVars
    /\ UNCHANGED beatVars
    /\ UNCHANGED termVars

\* send_message that reports success whatever send_text did.
send_text_returns_optimistic(s, ok) ==
    /\ sresult' = [sresult EXCEPT ![s] = "true"]
    /\ spc' = [spc EXCEPT ![s] = "idle"]
    /\ sgw' = [sgw EXCEPT ![s] = NoConn]
    /\ UNCHANGED <<lockVars, connections, fut>>

\* Lines 125-132: json.dumps and send_text return (ok) and True is returned,
\* or one of them raises and the machine identity is unregistered (at once
\* when the lock is free) before False is returned.
send_text_returns(s, ok) ==
    IF ok
    THEN /\ sresult' = [sresult EXCEPT ![s] = "true"]
         /\ spc' = [spc EXCEPT ![s] = "idle"]
         /\ sgw' = [sgw EXCEPT ![s] = NoConn]
         /\ UNCHANGED <<lockVars, connections, fut>>
    ELSE IF LockFree
         THEN /\ unregister(MachineOf(sgw[s]))
              /\ sresult' = [sresult EXCEPT ![s] = "false"]
              /\ spc' = [spc EXCEPT ![s] = "idle"]
              /\ sgw' = [sgw EXCEPT ![s] = NoConn]
              /\ UNCHANGED lockVars
         ELSE /\ Enqueue(STask(s))
              /\ spc' = [spc EXCEPT ![s] = "unreg_wait"]
              /\ UNCHANGED <<connections, fut, sgw, sresult>>

\* The write of the task frame of caller s ends.
SendTaskWritten(s) ==
    /\ spc[s] = "sending"
    /\ \E ok \in BOOLEAN : send_text_returns(s, ok)
    /\ UNCHANGED <<superseded, lastReg, pending_requests, hpc, histVars, reqVars>>
    /\ UNCHANGED recVars
    /\ UNCHANGED bVars
    /\ UNCHANGED boardVars
    /\ UNCHANGED beatVars
    /\ UNCHANGED termVars

\* Lines 131-132 and 71-77: the queued unregister is handed the lock.
SendTaskUnregisterLocked(s) ==
    /\ spc[s] = "unreg_wait"
    /\ lockHolder = STask(s)
    /\ unregister(MachineOf(sgw[s]))
    /\ Release
    /\ sresult' = [sresult EXCEPT ![s] = "false"]
    /\ spc' = [spc EXCEPT ![s] = "idle"]
    /\ sgw' = [sgw EXCEPT ![s] = NoConn]
    /\ UNCHANGED <<superseded, lastReg, pending_requests, hpc, histVars,
                   reqVars>>
    /\ UNCHANGED recVars
    /\ UNCHANGED bVars
    /\ UNCHANGED boardVars
    /\ UNCHANGED beatVars
    /\ UNCHANGED termVars

(* ---- GatewayManager.broadcast_to_organization ---- *)

\* get_by_organization without the filter of line 87.
get_by_organization_all(org) ==
    {m \in Machines : connections[m] # NoConn}

\* Lines 85-88: the Records of the registry whose organization is org,
\* given by their machines.
get_by_organization(org) ==
    {m \in Machines : connections[m] # NoConn /\ OrgOf(m) = org}

\* Lines 214-218 and 121-127: the loop goes on with the machines of todo.
\* send_message returns False without suspending for a machine that has no
\* Record any more; for the first machine that has one the write of the
\* message starts; with none left the count is returned.  The order of the
\* snapshot is the order of the registry, which the model leaves open.
broadcast_continue(todo, count) ==
    LET live == {m \in todo : connections[m] # NoConn}
    IN  /\ sent_count' = count
        /\ IF live = {}
           THEN /\ bpc' = "done"
                /\ btodo' = {}
                /\ bgw' = NoConn
           ELSE \E m \in live : \E skipped \in SUBSET (todo \ live) :
                  /\ bpc' = "sending"
                  /\ btodo' = todo \ ({m} \cup skipped)
                  /\ bgw' = connections[m]

\* Lines 211-215: take the snapshot of the organization's Records and start
\* the first write.
Broadcast(org) ==
    /\ bpc = "idle"
    /\ borg' = org
    /\ delivered' = {}
    /\ broadcast_continue(get_by_organization(org), 0)
    /\ UNCHANGED <<lockVars, regVars, pending_requests, fut, hpc, histVars,
                   reqVars, sndVars, recVars>>
    /\ UNCHANGED boardVars
    /\ UNCHANGED beatVars
    /\ UNCHANGED termVars

\* Lines 125-132 and 215-216: the write of the message returns and is
\* counted, or it raises, the machine is unregistered (at once when the
\* lock is free) and it is not counted; the loop goes on.
BroadcastWritten ==
    /\ bpc = "sending"
    /\ \E ok \in BOOLEAN :
         IF ok
         THEN /\ delivered' = delivered \cup {bgw}
              /\ broadcast_continue(btodo, sent_count + 1)
              /\ UNCHANGED <<lockVars, connections, fut>>
         ELSE IF LockFree
              THEN /\ unregister(MachineOf(bgw))
                   /\ broadcast_continue(btodo, sent_count)
                   /\ UNCHANGED <<lockVars, delivered>>
              ELSE /\ Enqueue(BTask)
                   /\ bpc' = "unreg_wait"
                   /\ UNCHANGED <<connections, fut, btodo, bgw, sent_count, delivered>>
    /\ UNCHANGED <<borg, superseded, lastReg, pending_requests, hpc, histVars,
                   reqVars, sndVars, recVars>>
    /\ UNCHANGED boardVars
    /\ UNCHANGED beatVars
    /\ UNCHANGED termVars

\* Lines 131-132 and 71-77: the queued unregister is handed the lock; the
\* loop goes on.
BroadcastUnregisterLocked ==
    /\ bpc = "unreg_wait"
    /\ lockHolder = BTask
    /\ unregister(MachineOf(bgw))
    /\ Release
    /\ broadcast_continue(btodo, sent_count)
    /\ UNCHANGED <<borg, delivered, superseded, lastReg, pending_requests, hpc,
                   histVars, reqVars, sndVars, recVars>>
    /\ UNCHANGED boardVars
    /\ UNCHANGED beatVars
    /\ UNCHANGED termVars

(* ---- GatewayManager: terminal sessions ---- *)

\* Lines 243-245: bind the session id in the machine's Record, if any.
register_terminal_session(m, sid) ==
    LET g == connections[m]
    IN  IF g # NoConn
        THEN terminal_sessions' = [terminal_sessions EXCEPT ![g] = @ \cup {sid}]
        ELSE UNCHANGED terminal_sessions

\* Lines 254-256: drop the session id from the machine's Record, if any.
unregister_terminal_session(m, sid) ==
    LET g == connections[m]
    IN  IF g # NoConn
        THEN terminal_sessions' = [terminal_sessions EXCEPT ![g] = @ \ {sid}]
        ELSE UNCHANGED terminal_sessions

\* A terminal client binds a session of machine m.
TerminalBind(m, sid) ==
    /\ register_terminal_session(m, sid)
    /\ UNCHANGED <<lockVars, regVars, pending_requests, fut, hpc, histVars,
                   reqVars, sndVars, now, last_heartbeat_at, agents_managed>>
    /\ UNCHANGED bVars
    /\ UNCHANGED boardVars
    /\ UNCHANGED beatVars
    /\ UNCHANGED termVars

\* A terminal client leaves and its session is unbound.
TerminalUnbind(m, sid) ==
    /\ unregister_terminal_session(m, sid)
    /\ UNCHANGED <<lockVars, regVars, pending_requests, fut, hpc, histVars,
                   reqVars, sndVars, now, last_heartbeat_at, agents_managed>>
    /\ UNCHANGED bVars
    /\ UNCHANGED boardVars
    /\ UNCHANGED beatVars
    /\ UNCHANGED termVars

(* ---- agents.py: agent_terminal_websocket ---- *)

\* What a terminal client asks for: an agent id that parses as a UUID or
\* not, an agent and a gateway row that exist or not, and the organization
\* of the gateway row.
TermSetups ==
    [agent_id : {"uuid", "invalid"}, agent : {"found", "missing"},
     gateway : {"found", "missing"}, org : Orgs]

\* Lines 201-228: the checks made before the registry is consulted.
setup_check(q) ==
    IF q.agent_id = "invalid" THEN "bad_id"
    ELSE IF q.agent = "missing" THEN "agent_not_found"
    ELSE IF q.gateway = "missing" THEN "gateway_not_found"
    ELSE "none"

\* Lines 208, 217, 227, 243 and 277: the close code of each failure.
terminal_close_code(failure) ==
    CASE failure = "bad_id" -> 4000
      [] failure = "agent_not_found" -> 4004
      [] failure = "gateway_not_found" -> 4004
      [] failure = "no_connected_gateway" -> 4003
      [] failure = "setup_failed" -> 4005
      [] failure = "no_response" -> 4005

\* Send the error frame, close the transport with the code of the failure
\* and return.
term_fail(t, failure) ==
    /\ terr' = [terr EXCEPT ![t] = failure]
    /\ tcode' = [tcode EXCEPT ![t] = terminal_close_code(failure)]
    /\ tpc' = [tpc EXCEPT ![t] = "closed"]

\* Lines 198-265: the client is accepted and checked; the first connected
\* machine of the gateway's organization is taken from the registry and the
\* terminal_start request for it starts (the caller of request_with_response
\* is the handler itself).
TermConnect(t) ==
    /\ tpc[t] = "new"
    /\ rpc[t] = "idle"
    /\ \E q \in TermSetups :
         IF setup_check(q) # "none"
         THEN /\ term_fail(t, setup_check(q))
              /\ UNCHANGED <<tgw, reqVars, pending_requests, fut>>
         ELSE IF get_by_organization(q.org) = {}
              THEN /\ term_fail(t, "no_connected_gateway")
                   /\ UNCHANGED <<tgw, reqVars, pending_requests, fut>>
              ELSE \E m \in get_by_organization(q.org) :
                     /\ tgw' = [tgw EXCEPT ![t] = m]
                     /\ tpc' = [tpc EXCEPT ![t] = "starting"]
                     /\ request_with_response(t, m)
                     /\ UNCHANGED <<terr, tcode>>
    /\ UNCHANGED <<lockVars, regVars, hpc, histVars, sndVars, recVars,
                   hrelay, received>>
    /\ UNCHANGED bVars
    /\ UNCHANGED boardVars
    /\ UNCHANGED beatVars

\* Lines 256-278: the write of the terminal_start frame ends; when it
\* raised, request_with_response returns None and the setup fails.
TermRequestWritten(t) ==
    /\ tpc[t] = "starting"
    /\ rpc[t] = "sending"
    /\ \E ok \in BOOLEAN :
         /\ send_request(t, ok)
         /\ IF ok
            THEN UNCHANGED <<tpc, terr, tcode>>
            ELSE term_fail(t, "no_response")
    /\ UNCHANGED <<lockVars, regVars, hpc, histVars, sndVars, recVars,
                   tgw, hrelay, received>>
    /\ UNCHANGED bVars
    /\ UNCHANGED boardVars
    /\ UNCHANGED beatVars

\* Lines 267-285: what the handler does with the outcome of the request.
\* An exception of request_with_response is not caught and ends the
\* handler; None, or a reply without a true "ok", fails the setup; a reply
\* with a true "ok" binds the session to the client transport in the
\* machine's Record and enters the client loop.
start_result(t, out) ==
    CASE out.kind = "raised" ->
            /\ tpc' = [tpc EXCEPT ![t] = "raised"]
            /\ UNCHANGED <<terr, tcode, terminal_sessions>>
      [] out.kind = "absent" ->
            /\ term_fail(t, "no_response")
            /\ UNCHANGED terminal_sessions
      [] out.kind = "reply" /\ out.val # "ok" ->
            /\ term_fail(t, "setup_failed")
            /\ UNCHANGED terminal_sessions
      [] out.kind = "reply" /\ out.val = "ok" ->
            /\ register_terminal_session(tgw[t], SidOf(t))
            /\ tpc' = [tpc EXCEPT ![t] = "open"]
            /\ UNCHANGED <<terr, tcode>>

\* Lines 256-285: the handler wakes up in wait_for because the future is
\* done or the timeout has fired; the request ends and the handler goes on
\* within the same step.
TermResume(t) ==
    /\ tpc[t] = "starting"
    /\ rpc[t] = "waiting"
    /\ FutDone(fut[rid[t]]) \/ rtimer[t]
    /\ EndCall(t, WaitOutcome(fut[rid[t]]))
    /\ start_result(t, WaitOutcome(fut[rid[t]]))
    /\ UNCHANGED <<lockVars, regVars, hpc, histVars, sndVars,
                   now, last_heartbeat_at, agents_managed, tgw, hrelay, received>>
    /\ UNCHANGED bVars
    /\ UNCHANGED boardVars
    /\ UNCHANGED beatVars

\* The finally block leaving the binding in place.
terminal_cleanup_forgetful(t) == UNCHANGED terminal_sessions

\* Lines 323-328: the finally block unbinds the session from the Record the
\* machine has now.
terminal_cleanup(t) == unregister_terminal_session(tgw[t], SidOf(t))

\* Lines 287-337: the client disconnects or its frame cannot be handled;
\* the session is unbound and, when the machine has a Record, the write of
\* the terminal_stop frame starts.
TermDisconnect(t) ==
    /\ tpc[t] = "open"
    /\ terminal_cleanup(t)
    /\ tpc' = [tpc EXCEPT ![t] =
                  IF connections[tgw[t]] = NoConn THEN "done" ELSE "stopping"]
    /\ UNCHANGED <<lockVars, regVars, pending_requests, fut, hpc, histVars,
                   reqVars, sndVars, now, last_heartbeat_at, agents_managed,
                   tgw, terr, tcode, hrelay, received>>
    /\ UNCHANGED bVars
    /\ UNCHANGED boardVars
    /\ UNCHANGED beatVars

\* send_message without its try block: a failed write of terminal_stop
\* raises into the finally block of the client handler.
stop_write_returns_raising(t, ok) ==
    /\ tpc' = [tpc EXCEPT ![t] = IF ok THEN "done" ELSE "raised"]
    /\ UNCHANGED <<lockVars, connections, fut>>

\* gateway_manager.py lines 125-132: send_text of the terminal_stop frame
\* returns (ok), or it raises, the exception is caught and the machine is
\* unregistered, at once when the lock is free; send_message returns
\* either way and its result is not used.
stop_write_returns(t, ok) ==
    IF ok
    THEN /\ tpc' = [tpc EXCEPT ![t] = "done"]
         /\ UNCHANGED <<lockVars, connections, fut>>
    ELSE IF LockFree
         THEN /\ unregister(tgw[t])
              /\ tpc' = [tpc EXCEPT ![t] = "done"]
              /\ UNCHANGED lockVars
         ELSE /\ Enqueue(TTask(t))
              /\ tpc' = [tpc EXCEPT ![t] = "stop_unreg_wait"]
              /\ UNCHANGED <<connections, fut>>

\* Lines 331-337 and gateway_manager.py 125-132: the write of terminal_stop
\* returns, or it raises and the machine is unregistered (at once when the
\* lock is free); the handler ends.
TermStopWritten(t) ==
    /\ tpc[t] = "stopping"
    /\ \E ok \in BOOLEAN : stop_write_returns(t, ok)
    /\ UNCHANGED <<superseded, lastReg, pending_requests, hpc, histVars,
                   reqVars, sndVars, recVars, tgw, terr, tcode, hrelay, received>>
    /\ UNCHANGED bVars
    /\ UNCHANGED boardVars
    /\ UNCHANGED beatVars

\* gateway_manager.py lines 131-132 and 71-77: the queued unregister is
\* handed the lock; the handler ends.
TermStopUnregisterLocked(t) ==
    /\ tpc[t] = "stop_unreg_wait"
    /\ lockHolder = TTask(t)
    /\ unregister(tgw[t])
    /\ Release
    /\ tpc' = [tpc EXCEPT ![t] = "done"]
    /\ UNCHANGED <<superseded, lastReg, pending_requests, hpc, histVars,
                   reqVars, sndVars, recVars, tgw, terr, tcode, hrelay, received>>
    /\ UNCHANGED bVars
    /\ UNCHANGED boardVars
    /\ UNCHANGED beatVars

(* ---- GatewayManager.get_stats ---- *)

\* self._connections.values(): the Records in the registry.
Records == {connections[m] : m \in Machines} \ {NoConn}

RECURSIVE SumOver(_, _)
SumOver(f, S) ==
    IF S = {} THEN 0
    ELSE LET x == CHOOSE y \in S : TRUE IN f[x] + SumOver(f, S \ {x})

\* Lines 222-233: the totals over the Records of the registry.  sum() over
\* the agents_managed fields raises TypeError when one of them is not a
\* number.
get_stats ==
    IF \E g \in Records : agents_managed[g] = BadAgents
    THEN [raised |-> TRUE, connected_gateways |-> 0, total_agents_managed |-> 0,
          organizations |-> 0, terminal_sessions |-> 0]
    ELSE [raised |-> FALSE,
          connected_gateways |-> Cardinality(Records),
          total_agents_managed |-> SumOver(agents_managed, Records),
          organizations |-> Cardinality({OrgOf(MachineOf(g)) : g \in Records}),
          terminal_sessions |->
              SumOver([g \in AllConns |-> Cardinality(terminal_sessions[g])], Records)]

(* ---- BoardCreate ---- *)

\* BoardCreate is called with the arguments drawn.
ValidateBoard ==
    /\ verdict = "none"
    /\ verdict' = BoardCreate(board)
    /\ UNCHANGED <<board, lockVars, regVars, pending_requests, fut, nextRid,
                   hpc, histVars, rpc, rgw, rid, rtimer, outcome, sndVars,
                   recVars, bVars, beatVars, termVars>>

(* ---- specifications ---- *)

\* The steps of the handler of connection c that wait for nobody.
HandlerStep(c) ==
    \/ Authenticate(c)
    \/ RecordConnect(c)
    \/ Welcome(c)
    \/ SendPendingTasks(c)
    \/ Receive(c)
    \/ ReceiveFails(c)
    \/ IdleTimeout(c)
    \/ ProbeWritten(c)
    \/ CleanupUnregister(c)
    \/ RecordDisconnect(c)

\* The steps of a caller of request_with_response.
CallerStep(r) ==
    \/ Request(r)
    \/ RequestWritten(r)
    \/ TimerFires(r)
    \/ Resume(r)

\* The steps of a caller of send_task whose unregister finds the lock free.
SenderStep(s) ==
    \/ SendTask(s)
    \/ SendTaskWritten(s)

\* Three connections of the machine, each superseding the one before, and
\* one task sender: register can find the lock taken by another register
\* that is closing a superseded transport.
Next ==
    \/ \E c \in Conns : HandlerStep(c)
    \/ \E c \in Conns : RegisterLocked(c)
    \/ \E c \in Conns : RegisterClosed(c)
    \/ \E c \in Conns : CleanupUnregisterLocked(c)
    \/ \E s \in Senders : SenderStep(s)
    \/ \E s \in Senders : SendTaskUnregisterLocked(s)

Spec == Init /\ [][Next]_vars

\* The event loop runs every task that is ready: a handler in its finally
\* block goes on, a task that was handed the lock goes on, and close() of a
\* superseded transport returns or raises.
Fairness ==
    /\ \A c \in Conns :
          /\ WF_vars(CleanupUnregister(c))
          /\ WF_vars(CleanupUnregisterLocked(c))
          /\ WF_vars(RecordDisconnect(c))
          /\ WF_vars(RegisterLocked(c))
          /\ WF_vars(RegisterClosed(c))
    /\ \A s \in Senders : WF_vars(SendTaskUnregisterLocked(s))

FairSpec == Spec /\ Fairness

\* Two connections of the machine (the second supersedes the first), one
\* correlated caller and one task sender.  The lock is held across a
\* suspension only by the second register, after which nobody registers, so
\* RegisterLocked is never enabled and is left out.
NextSupersede ==
    \/ \E c \in {1, 2} : HandlerStep(c)
    \/ \E c \in {1, 2} : RegisterClosed(c)
    \/ \E c \in {1, 2} : CleanupUnregisterLocked(c)
    \/ \E r \in {1} : CallerStep(r)
    \/ \E s \in Senders : SenderStep(s)
    \/ \E s \in Senders : SendTaskUnregisterLocked(s)

SpecSupersede == Init /\ [][NextSupersede]_vars

\* One connection, two concurrent correlated callers and one task sender.
\* With one connection register never closes a transport, the lock is never
\* held across a suspension, and the steps that wait for it are left out.
NextCorr ==
    \/ \E c \in {1} : HandlerStep(c)
    \/ \E r \in Requesters : CallerStep(r)
    \/ \E s \in Senders : SenderStep(s)

SpecCorr == Init /\ [][NextCorr]_vars

\* Two machines of different organizations with one connection each, the
\* heartbeats of the first, one task sender and one terminal session.  No Record is
\* superseded, so the lock is never held across a suspension.
NextRegistry ==
    \/ \E c \in {1, 5} : HandlerStep(c)
    \/ \E c \in {1} : ReceiveBeat(c)
    \/ \E c \in {1} : HeartbeatPersisted(c)
    \/ \E s \in Senders : SenderStep(s)
    \/ \E m \in {"m1", "m3"} : \E sid \in Sids : TerminalBind(m, sid)
    \/ \E m \in {"m1", "m3"} : \E sid \in Sids : TerminalUnbind(m, sid)

SpecRegistry == Init /\ [][NextRegistry]_vars

\* Three machines, two of one organization and one of another, with one
\* connection each, and one broadcast.  Nobody holds the lock across a
\* suspension, so the unregister of a failed write never waits.
NextBroadcast ==
    \/ \E c \in {1, 4, 5} : HandlerStep(c)
    \/ \E org \in Orgs : Broadcast(org)
    \/ BroadcastWritten

SpecBroadcast == Init /\ [][NextBroadcast]_vars

\* One machine with two connections (the second supersedes the first), one
\* machine of another organization, and one broadcast: the unregister of a
\* failed write can find the lock held by the second register.
NextBroadcastSupersede ==
    \/ \E c \in {1, 2, 5} : HandlerStep(c)
    \/ \E c \in {1, 2, 5} : RegisterClosed(c)
    \/ \E c \in {1, 2, 5} : CleanupUnregisterLocked(c)
    \/ \E org \in Orgs : Broadcast(org)
    \/ BroadcastWritten
    \/ BroadcastUnregisterLocked

SpecBroadcastSupersede == Init /\ [][NextBroadcastSupersede]_vars

\* One connection, its heartbeats and pings with any timestamp, and one
\* task sender, whose failed write removes the Record under the handler.
NextHeartbeat ==
    \/ \E c \in {1} : HandlerStep(c)
    \/ \E c \in {1} : ReceiveStampedBeat(c)
    \/ \E c \in {1} : HeartbeatPersisted(c)
    \/ \E s \in Senders : SenderStep(s)

SpecHeartbeat == Init /\ [][NextHeartbeat]_vars

\* The steps of the handler of terminal client t whose unregister finds
\* the lock free.
TerminalStep(t) ==
    \/ TermConnect(t)
    \/ TermRequestWritten(t)
    \/ TimerFires(t)
    \/ TermResume(t)
    \/ TermDisconnect(t)
    \/ TermStopWritten(t)

\* One gateway connection, its terminal_output frames, and two terminal
\* clients.
NextTerminal ==
    \/ \E c \in {1} : HandlerStep(c)
    \/ \E c \in {1} : ReceiveTerminalOutput(c)
    \/ \E c \in {1} : RelayWritten(c)
    \/ \E t \in Terms : TerminalStep(t)

SpecTerminal == Init /\ [][NextTerminal]_vars

\* Two connections of the machine (the second supersedes the first), their
\* terminal_output frames, and one terminal client: a session bound in the
\* first Record outlives that Record, and the unregister of a failed
\* terminal_stop write can find the lock held by the second register.
NextTerminalSupersede ==
    \/ \E c \in {1, 2} : HandlerStep(c)
    \/ \E c \in {1, 2} : RegisterClosed(c)
    \/ \E c \in {1, 2} : CleanupUnregisterLocked(c)
    \/ \E c \in {1, 2} : ReceiveTerminalOutput(c)
    \/ \E c \in {1, 2} : RelayWritten(c)
    \/ \E t \in {1} : TerminalStep(t)
    \/ \E t \in {1} : TermStopUnregisterLocked(t)

SpecTerminalSupersede == Init /\ [][NextTerminalSupersede]_vars

\* Any arguments for a board, and one call of BoardCreate.
InitBoard ==
    /\ InitBroker
    /\ board \in BoardInputs
    /\ verdict = "none"

SpecBoard == InitBoard /\ [][ValidateBoard]_vars

\* The timeout handle of every wait_for fires, and a caller that was woken
\* up (its future done, or its timeout fired) is run by the event loop.
FairnessCorr ==
    \A r \in Requesters : WF_vars(TimerFires(r)) /\ WF_vars(Resume(r))

FairSpecCorr == SpecCorr /\ FairnessCorr

(* ---- properties ---- *)

\* register(c) returns exactly when the handler starts writing the welcome frame.
RegisterReturns(c) ==
    hpc[c] \in {"accepted", "reg_wait", "reg_closing"} /\ hpc'[c] = "welcome"

C1_State ==
    /\ \A m \in Machines : connections[m] \in {NoConn, lastReg[m]}
    /\ superseded \subseteq closeInvoked

C1_Step ==
    \A c \in Conns :
        RegisterReturns(c) =>
            /\ connections'[MachineOf(c)] = c
            /\ connections[MachineOf(c)] # NoConn =>
                   connections[MachineOf(c)] \in closeInvoked'

\* C1: for register calls on one machine identity, get(identity) never
\* returns a Record other than the one installed by the latest completed
\* register (it is that Record when register returns, and until an unregister
\* removes it), and close() has been invoked on the transport of every Record
\* that a register replaced, whether or not that close() raised.
C1_RegisterSupersedes == []C1_State /\ [][C1_Step]_vars

\* The second connection has replaced the first, whose transport was closed.
C1_Witness ==
    /\ connections["m1"] = 2
    /\ 1 \in superseded
    /\ 1 \in closeInvoked

\* The handler of c is inside the try block of the dispatcher loop.
InLoop(c) == hpc[c] \in {"loop", "ping", "persist", "pong", "relay"}

FullCleanup == <<"unregister", "record_disconnect">>

C2_Step ==
    \A c \in Conns :
        (InLoop(c) /\ ~InLoop(c)') => (hpc'[c] = "cleanup" /\ cleanupLog'[c] = <<>>)

C2_State ==
    \A c \in Conns :
        /\ cleanupLog[c] \in {<<>>, <<"unregister">>, FullCleanup}
        /\ hpc[c] = "done" => cleanupLog[c] = FullCleanup

\* C2: every exit of a connection's dispatcher loop (disconnect, read or
\* write fault, exception while routing a frame) enters the finally block
\* with no cleanup done yet, and is followed by unregister of the connection's
\* machine and then by record_disconnect for its connection id, in that order.
C2_CleanupAfterExit ==
    /\ [][C2_Step]_vars
    /\ []C2_State
    /\ \A c \in Conns : (hpc[c] = "cleanup") ~> (cleanupLog[c] = FullCleanup)

\* Both handlers have left their loops and finished their cleanup.
C2_Witness ==
    \A c \in Conns : hpc[c] = "done" /\ cleanupLog[c] = FullCleanup

\* C3: every transport write or read error between registration and the end
\* of the handler ends the handler normally, with its Record removed from the
\* registry and the disconnect recorded: no handler ends by propagating.
C3_TransportErrorIsDisconnect ==
    \A c \in Conns :
        hpc[c] \in {"done", "crashed"} =>
            /\ hpc[c] = "done"
            /\ connections[MachineOf(c)] # c
            /\ cleanupLog[c] = <<"unregister", "record_disconnect">>

InFlight(r) == rpc[r] \in {"sending", "waiting"}

\* C7: a Record's pending-request table holds a request id exactly while the
\* request_with_response call that created it is in flight: the entry is there
\* from before the request frame is written, and no entry remains once the
\* call has ended (reply, timeout, failed write, cancellation), so entries
\* never accumulate over repeated calls.
C7_EntryWhileInFlight ==
    \A g \in Conns : \A k \in Rids :
        k \in pending_requests[g] <=>
            \E r \in Requesters : InFlight(r) /\ rgw[r] = g /\ rid[r] = k

\* Every request id has been used by a call that has ended, one of them with
\* a reply, and every table is empty.
C7_Witness ==
    /\ nextRid = MaxRids + 1
    /\ \A r \in Requesters : rpc[r] = "idle"
    /\ \E r \in Requesters : outcome[r].kind = "reply"
    /\ \A g \in Conns : pending_requests[g] = {}

\* A Record of machine m has just been removed from the registry.
Unregistered(m) == connections[m] # NoConn /\ connections'[m] = NoConn

C4_Step ==
    \A m \in Machines :
        Unregistered(m) =>
            \A k \in pending_requests[connections[m]] :
                /\ FutDone(fut'[k])
                /\ fut[k].st = "pending" => fut'[k] = FutCancelled
                /\ FutDone(fut[k]) => fut'[k] = fut[k]

C4_State ==
    \A m \in Machines :
        (connections[m] = NoConn /\ lastReg[m] # NoConn) =>
            \A k \in pending_requests[lastReg[m]] : FutDone(fut[k])

\* C4: unregister of a present Record removes it from the registry and
\* leaves every future of its pending-request table done: those that were
\* pending are cancelled by the unregister step itself, those already done
\* are untouched, and none stays pending while the Record is gone.
C4_UnregisterCancelsWaiters == []C4_State /\ [][C4_Step]_vars

\* The Record is gone with two entries in its table, one cancelled by the
\* unregister and one resolved before it.
C4_Witness ==
    /\ connections["m1"] = NoConn
    /\ \E j, k \in pending_requests[1] :
          fut[j] = FutCancelled /\ fut[k].st = "result"

\* The call of r ends from inside wait_for on a cancelled future.
EndsCancelled(r) ==
    rpc[r] = "waiting" /\ fut[rid[r]] = FutCancelled /\ rpc'[r] = "idle"

\* C5: a caller suspended in request_with_response when its Record is
\* unregistered has its call complete with an absent result (None).
C5_UnregisterYieldsAbsent ==
    [][\A r \in Requesters : EndsCancelled(r) => outcome'[r].kind = "absent"]_vars

\* C6: request_with_response and send_task never raise to their caller:
\* every call ends with a reply or absent, respectively with true or false.
C6_NeverRaises ==
    /\ \A r \in Requesters : outcome[r].kind \in {"none", "reply", "absent"}
    /\ \A s \in Senders : sresult[s] \in {"none", "true", "false"}

\* The call of r ends at this step.
CallEnds(r) == InFlight(r) /\ rpc'[r] = "idle"

C8_Step ==
    \A k \in Rids :
        FutDone(fut[k]) =>
            \/ fut'[k] = fut[k]
            \/ \E r \in Requesters :
                  /\ rid[r] = k
                  /\ CallEnds(r)
                  /\ rpc[r] = "waiting" =>
                        /\ fut[k].st = "result" =>
                              outcome'[r] = Outcome("reply", fut[k].val)
                        /\ fut[k].st = "cancelled" => outcome'[r].kind # "reply"

\* C8: at most one resolution is honoured per request id: once a future is
\* done (by a response or by the cancellation of unregister) no response,
\* duplicate response, timeout or unregister changes it until the call ends,
\* and a call that ends from its wait ends with the outcome of that first
\* resolution: the reply that completed the future, or no reply when it was
\* cancelled.  (A call whose own write of the request frame fails is not one
\* of the competitors: it returns None whatever the future holds.)
C8_SingleResolution == [][C8_Step]_vars

\* A response completed the future first; the timeout has fired and the
\* machine has been unregistered since, and the caller has not resumed yet.
C8_Witness ==
    \E r \in Requesters :
        /\ rpc[r] = "waiting"
        /\ fut[rid[r]].st = "result"
        /\ rtimer[r]
        /\ connections["m1"] = NoConn

\* The response frame {request_id: k, response: v} is processed on connection c.
ResponseStep(c, k, v) == ReceiveFrame(c, Frame("response", k, v))

\* The frame meets a future that is not done, stored under its id in the
\* current Record of the connection's machine.
Matches(c, k) ==
    /\ k # NoRid
    /\ connections[MachineOf(c)] # NoConn
    /\ k \in pending_requests[connections[MachineOf(c)]]
    /\ fut[k].st = "pending"

\* C9: processing a response frame changes at most the future stored under
\* its request id in the Record of the machine: with no Record, an unknown
\* or missing id, or a future already done, nothing changes and the loop
\* goes on; the future of another id is never completed or removed.
C9_ResponseFrameEffect ==
    [][\A c \in Conns : \A k \in FrameRids : \A v \in Replies :
          ResponseStep(c, k, v) =>
              /\ hpc'[c] = "loop"
              /\ UNCHANGED <<connections, pending_requests, lockVars, reqVars, sndVars>>
              /\ \A j \in Rids : j # k => fut'[j] = fut[j]
              /\ IF Matches(c, k)
                 THEN fut'[k] = FutResult(v)
                 ELSE UNCHANGED vars]_vars

\* The actors with a write in progress on the transport of Record c.
Writing(c) ==
    {HTask(d) : d \in {d \in Conns : d = c /\ hpc[d] \in {"welcome", "pending_tasks", "ping", "pong"}}}
        \cup {<<"r", r>> : r \in {r \in Requesters : rpc[r] = "sending" /\ rgw[r] = c}}
        \cup {STask(s) : s \in {s \in Senders : spc[s] = "sending" /\ sgw[s] = c}}

C10_Step ==
    \A r \in Requesters : \A m \in Machines :
        (connections[m] = NoConn /\ RequestOn(r, m)) =>
            /\ rpc'[r] = "idle"
            /\ outcome'[r] = Outcome("absent", "-")
            /\ \A c \in Conns : Writing(c)' = Writing(c)
            /\ UNCHANGED <<pending_requests, fut, nextRid>>

\* C10: request_with_response for a machine with no Record returns None in
\* the same step: no write is started on any transport and no future or
\* table entry is created.
C10_NoRecordNoSend == [][C10_Step]_vars

\* A call has returned absent although no request id has been drawn yet.
C10_Witness ==
    /\ nextRid = 1
    /\ connections["m1"] = NoConn
    /\ \E r \in Requesters : rpc[r] = "idle" /\ outcome[r] = Outcome("absent", "-")
\* The write of the request frame of r fails at this step.
RequestWriteFails(r) ==
    /\ rpc[r] = "sending"
    /\ send_request(r, FALSE)
    /\ UNCHANGED <<lockVars, regVars, hpc, histVars, sndVars>>
    /\ UNCHANGED recVars
    /\ UNCHANGED bVars
    /\ UNCHANGED boardVars
    /\ UNCHANGED beatVars
    /\ UNCHANGED termVars

\* C11: when the write of the request frame fails, request_with_response
\* returns absent in that same step, without entering the wait and without
\* its timeout having started, and its request id is no longer in the
\* pending-request table of the Record; nothing else changes.
C11_FailedWriteReturnsAbsent ==
    [][\A r \in Requesters :
          RequestWriteFails(r) =>
              /\ rpc'[r] = "idle"
              /\ outcome'[r] = Outcome("absent", "-")
              /\ ~rtimer[r] /\ ~rtimer'[r]
              /\ rid[r] \notin pending_requests'[rgw[r]]
              /\ \A g \in Conns : pending_requests'[g] = pending_requests[g] \ {rid[r]}
              /\ UNCHANGED <<connections, hpc>>]_vars

\* Two calls were made and both have ended absent after a failed write:
\* no request was ever waited for and both tables are empty.
C11_Witness ==
    /\ nextRid = 3
    /\ \A r \in Requesters : rpc[r] = "idle" /\ outcome[r] = Outcome("absent", "-")
    /\ \A k \in Rids : fut[k] = FutNone
    /\ \A g \in Conns : pending_requests[g] = {}
    /\ connections["m1"] = 1

\* The call of r ends from its wait with the future still pending: no
\* response has arrived and the Record has not been unregistered.
Expires(r) == rpc[r] = "waiting" /\ CallEnds(r) /\ fut[rid[r]].st = "pending"

C12_Step ==
    \A r \in Requesters :
        /\ Expires(r) =>
              /\ rtimer[r]
              /\ outcome'[r] = Outcome("absent", "-")
              /\ UNCHANGED <<connections, hpc, closeInvoked>>
        /\ (~rtimer[r] /\ rtimer'[r]) => UNCHANGED <<connections, hpc, closeInvoked, fut>>

\* C12: a request_with_response call that is waiting for its reply always
\* returns; when no response arrives and the Record stays registered it
\* does not return before its timeout has fired, it then returns absent
\* (nothing is raised), and neither the firing of the timeout nor the return
\* closes or unregisters the connection.
C12_TimeoutReturnsAbsent ==
    /\ [][C12_Step]_vars
    /\ \A r \in Requesters : (rpc[r] = "waiting") ~> (rpc[r] = "idle")

\* A caller's timeout has fired with no response and the Record still
\* registered, while the other caller has already returned absent.
C12_Witness ==
    \E r, q \in Requesters :
        /\ rpc[r] = "waiting" /\ rtimer[r] /\ fut[rid[r]].st = "pending"
        /\ connections["m1"] = 1 /\ hpc[1] = "loop"
        /\ rpc[q] = "idle" /\ outcome[q] = Outcome("absent", "-")

\* C13: a frame that cannot be decoded into a message object (text that is
\* not JSON, JSON that is not an object) or whose kind is not recognised is
\* dropped: the handler stays in its loop and nothing else changes.
C13_BadFrameDropped ==
    [][\A c \in Conns :
          \A kind \in {"malformed", "not_object", "unknown", "bad_kind"} :
              ReceiveFrame(c, Frame(kind, NoRid, "-")) => UNCHANGED vars]_vars

\* The ping probe of connection c has been written and the handler waits
\* for the next frame again.
ProbeSent(c) == hpc[c] = "ping" /\ hpc'[c] = "loop"

\* C14: when the idle timeout elapses the handler starts writing one ping
\* probe and, once it is written, waits for a frame again; neither step
\* removes a Record, closes a transport or starts the cleanup, so any number
\* of idle timeouts in a row leaves the connection registered.
C14_IdleProbesOnly ==
    [][\A c \in Conns :
          /\ IdleTimeout(c) =>
                /\ hpc'[c] = "ping"
                /\ UNCHANGED <<connections, closeInvoked, cleanupLog, pending_requests, fut>>
          /\ ProbeSent(c) =>
                UNCHANGED <<connections, closeInvoked, cleanupLog, pending_requests, fut>>
          /\ hpc[c] = "ping" => hpc'[c] \in {"ping", "loop", "cleanup"}]_vars

\* The registered connection has idled and its ping probe is being written.
C14_Witness ==
    \E c \in Conns :
        /\ hpc[c] = "ping"
        /\ connections[MachineOf(c)] = c
        /\ c \notin closeInvoked
        /\ cleanupLog[c] = <<>>

\* The handler of c, or the send_message call of s, returns from unregister.
HandlerUnregisters(c) ==
    hpc[c] \in {"cleanup", "unreg_wait"} /\ hpc'[c] = "record_disc"

SenderUnregisters(s) ==
    spc[s] \in {"sending", "unreg_wait"} /\ spc'[s] = "idle" /\ sresult'[s] = "false"

\* A call unregister(m) returns at this step.
UnregisterReturns(m) ==
    \/ \E c \in AllConns : MachineOf(c) = m /\ HandlerUnregisters(c)
    \/ \E s \in Senders :
          sgw[s] # NoConn /\ MachineOf(sgw[s]) = m /\ SenderUnregisters(s)

C15_Step ==
    /\ \A m \in Machines :
          UnregisterReturns(m) =>
              /\ connections'[m] = NoConn
              /\ \A o \in Machines \ {m} : connections'[o] = connections[o]
              /\ connections[m] = NoConn =>
                    UNCHANGED <<connections, pending_requests, fut, recVars>>
    /\ \A c \in AllConns :
          hpc[c] \in {"cleanup", "unreg_wait"} =>
              hpc'[c] \in {"cleanup", "unreg_wait", "record_disc"}

\* C15: every call of unregister(m) returns normally and leaves no Record
\* for m and the Records of the other machines as they were; a call that
\* finds no Record for m (a second call in a row, or a machine that never
\* registered) changes nothing at all, so two calls leave the registry as
\* one call does.
C15_UnregisterIdempotent == [][C15_Step]_vars

\* The failed write of a send_task has unregistered m1, whose handler is
\* about to call unregister again; m3 is registered.
C15_Witness ==
    /\ hpc[1] = "cleanup"
    /\ connections["m1"] = NoConn
    /\ \E s \in Senders : sresult[s] = "false"
    /\ connections["m3"] = 5

\* The Records of the registry, found through their connections.
Registered == {g \in AllConns : connections[MachineOf(g)] = g}

\* C18: in every reachable state stats() returns the totals of the current
\* registry: the number of Records, the sum of their agents_managed, the
\* number of distinct organizations and the number of terminal bindings.
C18_StatsIsAggregate ==
    /\ ~get_stats.raised
    /\ get_stats.connected_gateways = Cardinality(Registered)
    /\ get_stats.total_agents_managed =
          SumOver([g \in AllConns |-> IF agents_managed[g] = BadAgents
                                       THEN 0 ELSE agents_managed[g]], Registered)
    /\ get_stats.organizations =
          Cardinality({o \in Orgs : \E g \in Registered : OrgOf(MachineOf(g)) = o})
    /\ get_stats.terminal_sessions =
          Cardinality({<<g, sid>> \in AllConns \X Sids :
                          g \in Registered /\ sid \in terminal_sessions[g]})
    /\ \A g \in AllConns :
          (Registered = {g} /\ agents_managed[g] = 3) =>
              /\ get_stats.connected_gateways = 1
              /\ get_stats.total_agents_managed = 3
              /\ get_stats.organizations = 1
    /\ (\A c \in AllConns : hpc[c] \in {"new", "done"}) =>
          get_stats.connected_gateways = 0

\* A heartbeat or ping is processed on connection c at this step.
BeatStep(c) == \E fr \in BeatFrames : ReceiveFrame(c, fr)

C19_Step ==
    /\ \A g \in AllConns : last_heartbeat_at'[g] >= last_heartbeat_at[g]
    /\ \A c \in AllConns :
          (connections[MachineOf(c)] # NoConn /\ BeatStep(c)) =>
              last_heartbeat_at'[connections[MachineOf(c)]] >
                  last_heartbeat_at[connections[MachineOf(c)]]
    /\ \A g \in AllConns :
          (last_heartbeat_at[g] > 0 /\ last_heartbeat_at'[g] # last_heartbeat_at[g]) =>
              \E c \in AllConns : MachineOf(c) = MachineOf(g) /\ BeatStep(c)

\* C19: last_heartbeat_at of a Record never decreases; every heartbeat or
\* ping processed for the Record leaves it strictly greater; and once the
\* Record exists nothing but a heartbeat or ping of its machine changes it.
C19_HeartbeatIncreases == [][C19_Step]_vars

\* The Record of m1 has processed two heartbeats since it was created.
C19_Witness ==
    /\ connections["m1"] = 1
    /\ last_heartbeat_at[1] = 4
    /\ now = 4

C20_Step ==
    \A c \in AllConns : \A fr \in BeatFrames :
        ReceiveFrame(c, fr) =>
            LET g == connections[MachineOf(c)]
            IN  /\ UNCHANGED <<connections, pending_requests, terminal_sessions, fut>>
                /\ \A h \in AllConns \ {g} :
                      /\ last_heartbeat_at'[h] = last_heartbeat_at[h]
                      /\ agents_managed'[h] = agents_managed[h]
                /\ IF g = NoConn
                   THEN UNCHANGED <<now, last_heartbeat_at, agents_managed>>
                   ELSE /\ now' > now
                        /\ last_heartbeat_at'[g] = now'
                        /\ agents_managed'[g] =
                              IF fr.agents = NoAgents THEN agents_managed[g]
                              ELSE fr.agents

\* C20: update_heartbeat for a machine changes only the Record of that
\* machine: last_heartbeat_at becomes the reading of the clock,
\* agents_managed becomes the reported value when one is reported and keeps
\* its value otherwise; with no Record for the machine nothing changes.
C20_HeartbeatFrameEffect == [][C20_Step]_vars

\* The Record of m1 reported 3 agents and has processed a second heartbeat;
\* the Record of m3 is as it was created.
C20_Witness ==
    /\ connections["m1"] = 1 /\ connections["m3"] = 5
    /\ agents_managed[1] = 3 /\ last_heartbeat_at[1] = now
    /\ BeatsProcessed = 2
    /\ agents_managed[5] = 0 /\ last_heartbeat_at[5] < now

\* The write of the task frame of s ends at this step, with or without
\* an error.
TaskWriteEnds(s, ok) ==
    /\ spc[s] = "sending"
    /\ send_text_returns(s, ok)
    /\ UNCHANGED <<superseded, lastReg, pending_requests, hpc, histVars, reqVars, recVars>>
    /\ UNCHANGED bVars
    /\ UNCHANGED boardVars
    /\ UNCHANGED beatVars
    /\ UNCHANGED termVars

\* s calls send_task for machine m at this step.
TaskCall(s, m) ==
    /\ spc[s] = "idle"
    /\ send_message(s, m)
    /\ UNCHANGED <<lockVars, regVars, pending_requests, fut, hpc, histVars,
                   reqVars, recVars>>
    /\ UNCHANGED bVars
    /\ UNCHANGED boardVars
    /\ UNCHANGED beatVars
    /\ UNCHANGED termVars

\* The send_task call of s returns at this step.
SendTaskReturns(s) == spc'[s] = "idle" /\ (spc[s] # "idle" \/ sresult'[s] # sresult[s])

C16_Step ==
    \A s \in Senders :
        /\ TaskWriteEnds(s, TRUE) => (sresult'[s] = "true" /\ UNCHANGED connections)
        /\ TaskWriteEnds(s, FALSE) => sresult'[s] # "true"
        /\ (SendTaskReturns(s) /\ sresult'[s] = "true") => TaskWriteEnds(s, TRUE)
        /\ \A m \in Machines :
              TaskCall(s, m) =>
                  IF connections[m] = NoConn
                  THEN sresult'[s] = "false" /\ spc'[s] = "idle"
                  ELSE /\ spc'[s] = "sending" /\ sgw'[s] = connections[m]
                       /\ sresult'[s] # "true"
        /\ (SendTaskReturns(s) /\ spc[s] # "idle" /\ sresult'[s] # "true") =>
              /\ sresult'[s] = "false"
              /\ connections'[MachineOf(sgw[s])] = NoConn

\* C16: send_task returns true exactly when the write of the task frame to
\* the transport of the machine's Record returned; a call for a machine with
\* no Record returns false without starting a write; a call whose write
\* raises returns false, and when it returns the machine has no Record.
C16_SendTaskResult == [][C16_Step]_vars

\* A send_task call has returned false after a failed write and m1 has no
\* Record, while the handler of its connection is still in its loop.
C16_Witness ==
    /\ \E s \in Senders : spc[s] = "idle" /\ sresult[s] = "false"
    /\ connections["m1"] = NoConn
    /\ hpc[1] = "loop" /\ hpc[2] = "new"


(* ---- C17 ---- *)

\* C17: the count of broadcast_to_organization is the number of Records the
\* message was written to, and every one of them belongs to a machine of the
\* organization addressed, whatever registers or unregisters meanwhile.
C17_BroadcastCountAndScope ==
    /\ sent_count = Cardinality(delivered)
    /\ \A g \in delivered : OrgOf(MachineOf(g)) = borg

\* A broadcast to the organization of two machines has returned 1: one
\* write succeeded, the other failed and unregistered its machine, and the
\* machine of the other organization is registered.
C17_Witness ==
    /\ bpc = "done"
    /\ borg = "o1"
    /\ sent_count = 1
    /\ delivered = {4}
    /\ lastReg["m1"] = 1
    /\ connections["m1"] = NoConn
    /\ connections["m3"] = 5


(* ---- C30 ---- *)

\* The step removes from the registry a Record that superseded the Record
\* of connection c.
RemovesSuccessorOf(c) ==
    /\ c \in superseded
    /\ connections[MachineOf(c)] \notin {NoConn, c}
    /\ connections'[MachineOf(c)] = NoConn

\* The step is the unregister of the finally block of connection c.
CleanupOf(c) == cleanupLog'[c] # cleanupLog[c] /\ Len(cleanupLog[c]) = 0

\* The step is the unregister that follows a failed write on the transport
\* of the Record of connection c.
FailedWriteOn(c) ==
    \E s \in Senders : sgw[s] = c /\ sgw'[s] = NoConn /\ sresult'[s] = "false"

C30_Step ==
    \A c \in Conns :
        RemovesSuccessorOf(c) => (~CleanupOf(c) /\ ~FailedWriteOn(c))

\* C30: once register has replaced the Record R1 of an identity by R2,
\* neither the cleanup that follows the exit of R1's dispatcher loop nor the
\* unregister that follows a failed write on R1's transport removes R2.
C30_CleanupKeepsNewerRecord == [][C30_Step]_vars


(* ---- C28 ---- *)

\* The verifier has just rejected the token of connection c.
Rejected(c) == hpc[c] = "new" /\ hpc'[c] = "rejected"

C28_Step ==
    \A c \in Conns :
        /\ Rejected(c) =>
              /\ c \in closeInvoked'
              /\ closeCode'[c] = AuthFailedCode
              /\ UNCHANGED <<connections, lastReg, superseded, dbConnected,
                             pending_requests, fut, lockVars, recVars>>
        /\ hpc[c] = "rejected" => hpc'[c] = "rejected"

C28_State ==
    \A c \in Conns :
        hpc[c] = "rejected" =>
            /\ c \notin dbConnected
            /\ \A m \in Machines : connections[m] # c /\ lastReg[m] # c
            /\ closeCode[c] = AuthFailedCode

\* C28: a handshake whose token the verifier rejects closes the connection
\* with code 4001 and does nothing else: the registry and the external store
\* are unchanged by the step, the handler does nothing afterwards, and no
\* Record and no connect event ever exist for that connection.
C28_RejectedHandshake == []C28_State /\ [][C28_Step]_vars

\* The first connection is rejected while the second is registered.
C28_Witness ==
    /\ hpc[1] = "rejected"
    /\ closeCode[1] = AuthFailedCode
    /\ connections["m1"] = 2
    /\ dbConnected = {2}


(* ---- C29 ---- *)

\* The field is missing or empty in the arguments.
MissingOrEmpty(v) == v \in {Absent, None, "", EmptyDict}

\* The instance is a goal board (the type a board has when none is given).
IsGoal(kw) == kw.board_type \in {"goal", Absent}

\* C29: BoardCreate raises exactly for a goal board with goal_confirmed
\* true whose objective or success_metrics is missing or empty, and accepts
\* every other combination.
C29_BoardCreateRejects ==
    verdict # "none" =>
        (verdict = "rejected" <=>
            /\ IsGoal(board)
            /\ board.goal_confirmed = "True"
            /\ MissingOrEmpty(board.objective) \/ MissingOrEmpty(board.success_metrics))

\* An unconfirmed goal board without objective has been accepted.
C29_Witness ==
    /\ verdict = "accepted"
    /\ board.board_type = "goal"
    /\ board.goal_confirmed = Absent
    /\ board.objective = Absent


(* ---- C21 ---- *)

\* What a pong carries for a frame whose "timestamp" is ts: the same value,
\* and null when the frame has none.
Echo(ts) == IF ts = Absent THEN None ELSE ts

C21_State ==
    \A c \in AllConns :
        /\ Len(pongsSent[c]) <= dbHeartbeats[c]
        /\ dbHeartbeats[c] <= Len(beats[c])
        /\ Len(beats[c]) <= Len(pongsSent[c]) + 1
        /\ \A i \in 1..Len(pongsSent[c]) : pongsSent[c][i] = Echo(beats[c][i])
        /\ hpc[c] = "loop" =>
              /\ dbHeartbeats[c] = Len(beats[c])
              /\ Len(pongsSent[c]) = Len(beats[c])
        /\ hpc[c] = "persist" => dbHeartbeats[c] = Len(beats[c]) - 1
        /\ hpc[c] = "pong" =>
              /\ dbHeartbeats[c] = Len(beats[c])
              /\ Len(pongsSent[c]) = Len(beats[c]) - 1

C21_Step ==
    \A c \in AllConns :
        /\ \A fr \in StampedBeatFrames :
              ReceiveFrame(c, fr) =>
                  /\ hpc'[c] = "persist"
                  /\ connections[MachineOf(c)] # NoConn =>
                        last_heartbeat_at'[connections[MachineOf(c)]] = now'
        /\ hpc[c] = "persist" =>
              \/ hpc'[c] = "persist"
              \/ hpc'[c] = "pong" /\ dbHeartbeats'[c] = dbHeartbeats[c] + 1
              \/ hpc'[c] = "cleanup" /\ pongsSent'[c] = pongsSent[c]
        /\ hpc[c] = "pong" =>
              \/ hpc'[c] = "pong"
              \/ /\ hpc'[c] = "loop"
                 /\ pongsSent'[c] = Append(pongsSent[c], Echo(beats[c][Len(beats[c])]))
              \/ hpc'[c] = "cleanup" /\ pongsSent'[c] = pongsSent[c]
        /\ hpc[c] # "pong" => pongsSent'[c] = pongsSent[c]

Bound(t, g) == SidOf(t) \in terminal_sessions[g]

\* The terminal_start request of t ends at this step.
StartEnds(t) == tpc[t] = "starting" /\ tpc'[t] # "starting"

\* The request ends with a reply that has a true "ok".
StartedOk(t) ==
    /\ rpc[t] = "waiting"
    /\ fut[rid[t]] = FutResult("ok")

C22_Step ==
    \A t \in Terms :
        /\ \A g \in AllConns :
              (~Bound(t, g) /\ Bound(t, g)') => (StartEnds(t) /\ StartedOk(t))
        /\ (StartEnds(t) /\ ~StartedOk(t)) =>
              /\ terr'[t] \in {"setup_failed", "no_response"}
              /\ tcode'[t] # NoCode
              /\ tpc'[t] = "closed"
              /\ UNCHANGED terminal_sessions

C22_State ==
    \A t \in Terms :
        tpc[t] \in {"closed", "raised"} => \A g \in AllConns : ~Bound(t, g)

\* C22: the session of a terminal client is bound only by the step in
\* which its terminal_start request ends with a successful reply; when the
\* request ends in any other way the client is sent an error frame, its
\* transport is closed with a code, and its session is never bound.
C22_BindAfterStart == []C22_State /\ [][C22_Step]_vars

(* ---- C23: bindings do not outlive their handlers ---- *)

\* The handler of terminal client t has returned or raised.
TermEnded(t) == tpc[t] \in {"done", "closed", "raised"}

\* The finally block of terminal client t finds nothing to remove: the
\* machine has no Record, or its Record does not hold the session.
NothingToUnbind(t) ==
    \/ connections[tgw[t]] = NoConn
    \/ SidOf(t) \notin terminal_sessions[connections[tgw[t]]]

C23_State ==
    /\ \A t \in Terms :
          TermEnded(t) => \A g \in Records : SidOf(t) \notin terminal_sessions[g]
    /\ \A c \in AllConns :
          hpc[c] = "done" => c \notin Records

C23_Step ==
    \A t \in Terms :
        (tpc[t] = "open" /\ tpc'[t] # "open") =>
            /\ tpc'[t] \in {"done", "stopping"}
            /\ NothingToUnbind(t) => UNCHANGED terminal_sessions

\* C23: once the handler of a terminal client has ended, no Record in the
\* registry holds its session; once the handler of a gateway connection
\* has ended, its Record (and so every binding in it) is out of the
\* registry; and the finally block of a terminal client that finds the
\* binding gone or the machine without a Record goes on without raising
\* and changes no binding.
C23_BindingsRemoved == []C23_State /\ [][C23_Step]_vars

\* A terminal client has ended whose session was bound in the Record of
\* connection 1, which connection 2 had superseded by then: the binding
\* is still in the superseded Record, out of the registry.
C23_Witness ==
    /\ tpc[1] = "done"
    /\ SidOf(1) \in terminal_sessions[1]
    /\ connections["m1"] = 2
    /\ hpc[1] = "done"

(* ---- C24: a failed client write drops the binding only ---- *)

\* The client write awaited by the dispatcher of c ends with nothing
\* delivered: json.dumps or send_text raised.
FailedRelay(c) ==
    /\ hpc[c] = "relay"
    /\ hpc'[c] # "relay"
    /\ <<hrelay[c].sid, hrelay[c].content>> \notin received'[hrelay[c].client]

\* A terminal_output frame for a session that the Record of the connection
\* does not hold is received in this step.
UnboundOutput(c) ==
    /\ \E fr \in TerminalFrames : ReceiveFrame(c, fr) /\ fr.sid \in TermSids
          /\ connections[MachineOf(c)] = c
          /\ fr.sid \notin terminal_sessions[c]

C24_Step ==
    /\ \A c \in AllConns :
          FailedRelay(c) =>
              /\ hrelay[c].sid \notin terminal_sessions'[hrelay[c].g]
              /\ hpc'[c] = "loop"
              /\ UNCHANGED <<connections, fut, pending_requests, closeInvoked>>
    /\ \A c \in AllConns :
          UnboundOutput(c) =>
              /\ hpc'[c] = "loop"
              /\ hrelay'[c] = NoRelay
              /\ UNCHANGED <<received, terminal_sessions>>
    /\ \A t \in Terms : \A g \in AllConns :
          (~Bound(t, g) /\ Bound(t, g)') => (tpc[t] = "starting" /\ tpc'[t] = "open")
    /\ \A t \in Terms :
          tpc[t] # "new" => tpc'[t] # "new"
    /\ \A t \in Terms :
          tpc[t] \notin {"new", "starting"} => tpc'[t] # "starting"

\* C24: when the write of relayed output to the bound client transport
\* fails, the session is dropped from the Record, the dispatcher stays in
\* its loop, and neither the registry nor a pending request changes; the
\* session is bound only while its handler finishes the setup, which it
\* does once, so the binding never comes back, and a terminal_output frame
\* for a session that is not bound is not relayed.
C24_FailedRelayDropsBinding == [][C24_Step]_vars

\* The binding of terminal client 1, whose handler is still in its loop,
\* has been dropped by a failed write, and the gateway connection is still
\* registered and in its loop.
C24_Witness ==
    /\ tpc[1] = "open"
    /\ ~Bound(1, 1)
    /\ connections["m1"] = 1
    /\ hpc[1] = "loop"

(* ---- C25: output for a session that is not bound ---- *)

\* The Record the machine of connection c has now, if any, holds no
\* binding for the session id.
NoBinding(c, sid) ==
    \/ connections[MachineOf(c)] = NoConn
    \/ sid \notin terminal_sessions[connections[MachineOf(c)]]

\* C25: a terminal_output frame whose session id is not bound leaves the
\* handler in its loop, starts no client write and changes nothing.
C25_UnboundOutputIgnored ==
    [][\A c \in AllConns : \A fr \in TerminalFrames :
          (ReceiveFrame(c, fr) /\ NoBinding(c, fr.sid)) => UNCHANGED vars]_vars

(* ---- C26: output goes to the client of its own session ---- *)

\* A terminal_output frame for a session bound in the Record of the
\* connection's machine is received in this step.
BoundOutput(c, fr) ==
    /\ ReceiveFrame(c, fr)
    /\ fr.sid \in TermSids
    /\ ~NoBinding(c, fr.sid)

C26_State ==
    \A t \in Terms : \A p \in received[t] : p[1] = SidOf(t)

C26_Step ==
    /\ \A c \in AllConns : \A fr \in TerminalFrames :
          BoundOutput(c, fr) =>
              /\ hpc'[c] = "relay"
              /\ hrelay'[c].client = ClientOf(fr.sid)
              /\ hrelay'[c].sid = fr.sid
              /\ hrelay'[c].content = fr.content
              /\ UNCHANGED received
    /\ \A c \in AllConns :
          (hpc[c] = "relay" /\ hpc'[c] # "relay") =>
              \A t \in Terms :
                  /\ t # hrelay[c].client => received'[t] = received[t]
                  /\ received'[t] \subseteq
                        received[t] \cup {<<hrelay[c].sid, hrelay[c].content>>}
    /\ (\A c \in AllConns : hpc[c] # "relay") => UNCHANGED received

\* C26: a terminal_output frame for a bound session starts one write, to
\* the client transport bound to the frame's own session id and with the
\* frame's content; only the end of that write delivers anything, and it
\* delivers that content to that client alone, so whatever a client has
\* received belongs to its own session.
C26_OutputToOwnClient == []C26_State /\ [][C26_Step]_vars

\* Both sessions are bound in the Record of connection 1, client 2 has
\* received output, and a write of output to client 1 is in progress.
C26_Witness ==
    /\ Bound(1, 1) /\ Bound(2, 1)
    /\ received[2] # {}
    /\ hpc[1] = "relay"
    /\ hrelay[1].client = 1

(* ---- C27: one close code per failure class ---- *)

\* The five failure classes of the setup: a missing agent and a missing
\* gateway are one class.
FailureClass(failure) ==
    IF failure \in {"agent_not_found", "gateway_not_found"}
    THEN "not_found"
    ELSE failure

\* The setup of terminal client t has failed: the error frame was sent and
\* the transport closed with a code.
SetupFailed(t) == tpc[t] = "closed" /\ tcode[t] # NoCode

\* C27: two terminal clients whose setups failed for reasons of different
\* classes were closed with different codes.
C27_DistinctCloseCodes ==
    \A t, u \in Terms :
        (SetupFailed(t) /\ SetupFailed(u)
            /\ FailureClass(terr[t]) # FailureClass(terr[u]))
        => tcode[t] # tcode[u]

(* ---- C31: one critical section for register and unregister ---- *)

\* The tasks suspended inside the critical section of register (closing
\* the previous transport) or handed the lock and about to run.
InCritical ==
    {HTask(c) : c \in {c \in AllConns : hpc[c] = "reg_closing"}}
        \cup (IF lockHolder = NoTask THEN {} ELSE {lockHolder})

\* The tasks that have called register or unregister and not returned.
RegCalls ==
    {HTask(c) : c \in {c \in AllConns :
                          hpc[c] \in {"reg_wait", "reg_closing", "unreg_wait"}}}
        \cup {STask(s) : s \in {s \in Senders : spc[s] = "unreg_wait"}}

\* The tasks that call register or unregister.
RegTasks == {HTask(c) : c \in Conns} \cup {STask(s) : s \in Senders}

C31_State ==
    /\ Cardinality(InCritical) <= 1
    /\ InCritical \subseteq RegCalls
    /\ \A i \in 1..Len(lockQ) :
          /\ lockQ[i] \in RegCalls \ InCritical
          /\ \A j \in 1..Len(lockQ) : lockQ[i] = lockQ[j] => i = j
    /\ lockQ # <<>> => lockHolder # NoTask

C31_Step ==
    (lockHolder # NoTask /\ lockHolder' = lockHolder) =>
        UNCHANGED <<connections, superseded, lastReg, fut>>

\* C31: at most one task is inside the critical section of register and
\* unregister, also while register is suspended closing the previous
\* transport; while a task stays inside, nobody else changes the registry
\* or cancels a future; and every call of register or unregister that has
\* started returns, the unregister of a failed send included.
C31_OneCriticalSection ==
    /\ []C31_State
    /\ [][C31_Step]_vars
    /\ \A t \in RegTasks : []<>(t \notin RegCalls)

\* A register is suspended closing the previous transport while another
\* register, the unregister of a finally block and the unregister of a
\* failed send wait for the lock.
C31_Witness ==
    /\ \E c \in Conns : hpc[c] = "reg_closing"
    /\ \E c \in Conns : hpc[c] = "reg_wait"
    /\ \E c \in Conns : hpc[c] = "unreg_wait"
    /\ \E s \in Senders : spc[s] = "unreg_wait"

(* ---- C32: one writer per gateway transport ---- *)

\* The actors with a write in progress on the transport of Record c: its
\* handler (welcome, queued tasks, ping, pong), the callers of
\* request_with_response and send_task, and the broadcast.
Writers(c) ==
    Writing(c) \cup (IF bpc = "sending" /\ bgw = c THEN {BTask} ELSE {})

\* C32: no two actors have a write in progress on the transport of one
\* gateway connection at the same time.
C32_OneWriter ==
    \A c \in AllConns : Cardinality(Writers(c)) <= 1

(* ---- C33: a waiting caller does not block the dispatcher ---- *)

\* Caller r waits for the reply to its request on the Record of c, whose
\* handler is in its loop.
Awaited(r, c) ==
    /\ rpc[r] = "waiting"
    /\ rgw[r] = c
    /\ connections[MachineOf(c)] = c
    /\ hpc[c] = "loop"

C33_State ==
    \A r \in Requesters : \A c \in Conns :
        Awaited(r, c) =>
            /\ \A fr \in Frames : ENABLED ReceiveFrame(c, fr)
            /\ \A v \in Replies : ENABLED ResponseStep(c, rid[r], v)

C33_Step ==
    \A r \in Requesters : \A c \in Conns : \A v \in Replies :
        (Awaited(r, c) /\ fut[rid[r]].st = "pending" /\ ResponseStep(c, rid[r], v)) =>
            /\ fut'[rid[r]] = FutResult(v)
            /\ hpc'[c] = "loop"
            /\ rpc'[r] = "waiting"

\* C33: while a caller waits for a reply on a Record whose handler is in
\* its loop, the handler can take any frame; a response frame carrying
\* the caller's request id completes the caller's future with the frame's
\* reply and leaves the handler in its loop; and a caller whose future
\* holds a reply returns that reply.
C33_WaiterDoesNotBlockLoop ==
    /\ []C33_State
    /\ [][C33_Step]_vars
    /\ \A r \in Requesters : \A v \in Replies :
          (rpc[r] = "waiting" /\ fut[rid[r]] = FutResult(v))
              ~> (rpc[r] = "idle" /\ outcome[r] = Outcome("reply", v))

\* One caller has returned with the reply of a response frame while the
\* other still waits, its timeout not fired, and the handler is in its
\* loop.
C33_Witness ==
    \E r, q \in Requesters :
        /\ rpc[r] = "idle" /\ outcome[r].kind = "reply"
        /\ Awaited(q, 1) /\ ~rtimer[q] /\ fut[rid[q]].st = "pending"

(* ---- C34: frames of a superseded connection ---- *)

\* The Record that replaced the Record of connection c in the registry.
Successor(c) == connections[MachineOf(c)]

\* Connection c has been superseded and its machine has a newer Record.
Replaced(c) == c \in superseded /\ Successor(c) \notin {NoConn, c}

\* C34: a frame processed by the handler of a superseded connection leaves
\* the newer Record of the machine as it was: its last_heartbeat_at and
\* agents_managed, the futures of its pending requests, and its terminal
\* clients, to none of which a write is started.
C34_SupersededFramesIgnored ==
    [][\A c \in AllConns : \A fr \in Frames \cup BeatFrames \cup TerminalFrames :
          (Replaced(c) /\ ReceiveFrame(c, fr)) =>
              /\ last_heartbeat_at'[Successor(c)] = last_heartbeat_at[Successor(c)]
              /\ agents_managed'[Successor(c)] = agents_managed[Successor(c)]
              /\ \A k \in pending_requests[Successor(c)] : fut'[k] = fut[k]
              /\ hrelay'[c].g # Successor(c)]_vars

(* ---- C35: waiters of a superseded Record ---- *)

\* C35: no future of the pending-request table of a Record that register
\* has replaced is still pending: the replacement released every caller
\* waiting on the Record.
C35_SupersedeCancelsWaiters ==
    \A g \in superseded : \A k \in pending_requests[g] : fut[k].st # "pending"

(* ---- C36: the welcome frame comes first ---- *)

\* The positions of a handler that has not started writing the welcome
\* frame; the write starts in the step in which register returns.
PreWelcome == {"new", "accepted", "reg_wait", "reg_closing", "rejected"}

C36_State ==
    \A c \in AllConns :
        hpc[c] \in PreWelcome =>
            /\ connections[MachineOf(c)] # c
            /\ Writers(c) = {}
            /\ pending_requests[c] = {}

C36_Step ==
    \A c \in AllConns :
        /\ (hpc[c] \in PreWelcome /\ hpc'[c] \notin PreWelcome) =>
              (hpc'[c] = "welcome" /\ connections'[MachineOf(c)] = c)
        /\ hpc'[c] \in {"pending_tasks", "loop", "ping", "persist", "pong"} =>
              hpc[c] \notin PreWelcome

\* C36: the write of the welcome frame starts in the step that puts the
\* Record into the registry, and until then the Record cannot be found:
\* no caller of send_task, of the broadcast or of request_with_response
\* has a write in progress on the transport or a request stored in the
\* Record before the welcome write has started, and the handler writes
\* its queued tasks, pings and pongs only after the welcome.
C36_WelcomeFirst == []C36_State /\ [][C36_Step]_vars

\* The welcome frame of connection 2, which has replaced connection 1, is
\* being written, and a task frame and a request frame for the same
\* transport have been started since.
C36_Witness ==
    /\ hpc[2] = "welcome"
    /\ 1 \in superseded
    /\ \E s \in Senders : spc[s] = "sending" /\ sgw[s] = 2
    /\ \E r \in Requesters : rpc[r] = "sending" /\ rgw[r] = 2

(* ---- C37: output during the setup of a session ---- *)

\* The dispatcher of c has processed the reply that acknowledges the
\* terminal_start of client t, whose handler has not resumed yet; the
\* Record of c is still the one of the machine.
Acknowledged(t, c) ==
    /\ tpc[t] = "starting"
    /\ rpc[t] = "waiting"
    /\ rgw[t] = c
    /\ fut[rid[t]] = FutResult("ok")
    /\ connections[MachineOf(c)] = c

\* The session of client t is bound in the Record of c, which is still
\* the one of the machine, and the client's handler is in its loop.
Established(t, c) ==
    /\ tpc[t] = "open"
    /\ Bound(t, c)
    /\ connections[MachineOf(c)] = c

\* Processing the frame now starts a write of its content to client t.
WouldRelay(c, t, ct) ==
    ENABLED (/\ ReceiveFrame(c, TermOut(SidOf(t), ct))
             /\ hrelay'[c].client = t
             /\ hrelay'[c].content = ct)

\* C37: from the moment the dispatcher has processed the acknowledgement
\* of terminal_start, and as long as the client is connected and the
\* Record is the same, a terminal_output frame for the session that the
\* dispatcher takes is written to the client.
C37_NoOutputLost ==
    \A t \in Terms : \A c \in Conns : \A ct \in Contents :
        ((Acknowledged(t, c) \/ Established(t, c)) /\ hpc[c] = "loop")
            => WouldRelay(c, t, ct)

(* ---- C38: teardown of a terminal session ---- *)

\* The handler of terminal client t leaves its loop in this step.
LeavesLoop(t) == tpc[t] = "open" /\ tpc'[t] # "open"

\* The handler of terminal client t is in its finally block, past the
\* removal of the binding.
Stopping(t) == tpc[t] \in {"stopping", "stop_unreg_wait"}

C38_Step ==
    \A t \in Terms :
        /\ LeavesLoop(t) =>
              /\ \A g \in Records' : ~Bound(t, g)'
              /\ IF connections[tgw[t]] # NoConn
                 THEN tpc'[t] = "stopping"
                 ELSE tpc'[t] = "done"
              /\ UNCHANGED <<pending_requests, fut, nextRid, connections>>
        /\ tpc'[t] = "stopping" => LeavesLoop(t) \/ tpc[t] = "stopping"
        /\ Stopping(t) =>
              /\ tpc'[t] \in {"stopping", "stop_unreg_wait", "done"}
              /\ tpc'[t] # tpc[t] => UNCHANGED <<pending_requests, nextRid>>
        /\ tpc[t] = "done" => tpc'[t] = "done"

C38_State ==
    \A t \in Terms :
        Stopping(t) =>
            /\ \A g \in Records : ~Bound(t, g)
            /\ rpc[t] = "idle"

\* C38: the handler of a terminal client that leaves its loop removes the
\* binding in that step and, when the machine has a Record, starts one
\* write of terminal_stop, for which no request id is drawn and no future
\* stored; the binding is gone while the frame is written; the handler
\* then ends normally, whether the write returned or raised, and ends at
\* once without a write when the machine has no Record.
C38_StopAfterUnbind == []C38_State /\ [][C38_Step]_vars

\* The handler of a terminal client has ended normally after the write
\* of its terminal_stop frame failed: the machine's Record is gone
\* although no gateway handler has unregistered it.
C38_Witness ==
    /\ tpc[1] = "done"
    /\ lastReg["m1"] # NoConn
    /\ connections["m1"] = NoConn
    /\ \A c \in Conns : cleanupLog[c] = <<>>

====
